---- MODULE Spec2Model ----
(***************************************************************************)
(* A model of PetChat's transport and resilience core:                     *)
(*   - core/protocol.py        the frame codec (pack / verify_crc / parse) *)
(*   - core/server_core.py     the per-connection read loop, the client    *)
(*                             registry and the message router             *)
(*   - core/providers/retry.py the circuit breaker                         *)
(* Text is modelled as sequences of Unicode code points, wire data as      *)
(* sequences of bytes (0..255); a 32-bit checksum is kept as its four      *)
(* big-endian bytes, the form struct.pack('>I') gives it on the wire.      *)
(***************************************************************************)
EXTENDS Integers, Sequences, FiniteSets, TLC

(***************************************************************************)
(* Bounds of the model.                                                    *)
(***************************************************************************)
\* longest string value of the envelopes the codec specification draws
MaxStrLen == 2
\* frames the server reads in one run, all connections together
MaxRecv == 3

(***************************************************************************)
(* Bytes, CRC-32 (zlib.crc32) and the 8-byte header.                       *)
(***************************************************************************)
\* F applied to the value of e.  TLC evaluates a LET definition or an operator
\* argument where it is used, as often as it is used; a bound variable holds
\* a value, so what is computed once and used often is bound with Let.
Let(e, F(_)) == CHOOSE r \in {F(x) : x \in {e}} : TRUE

\* a ^ b for 0 <= a, b < 16, at index 16 * a + b + 1
XorNibble ==
    <<
       0, 1, 2, 3, 4, 5, 6, 7, 8, 9, 10, 11, 12, 13, 14, 15,
       1, 0, 3, 2, 5, 4, 7, 6, 9, 8, 11, 10, 13, 12, 15, 14,
       2, 3, 0, 1, 6, 7, 4, 5, 10, 11, 8, 9, 14, 15, 12, 13,
       3, 2, 1, 0, 7, 6, 5, 4, 11, 10, 9, 8, 15, 14, 13, 12,
       4, 5, 6, 7, 0, 1, 2, 3, 12, 13, 14, 15, 8, 9, 10, 11,
       5, 4, 7, 6, 1, 0, 3, 2, 13, 12, 15, 14, 9, 8, 11, 10,
       6, 7, 4, 5, 2, 3, 0, 1, 14, 15, 12, 13, 10, 11, 8, 9,
       7, 6, 5, 4, 3, 2, 1, 0, 15, 14, 13, 12, 11, 10, 9, 8,
       8, 9, 10, 11, 12, 13, 14, 15, 0, 1, 2, 3, 4, 5, 6, 7,
       9, 8, 11, 10, 13, 12, 15, 14, 1, 0, 3, 2, 5, 4, 7, 6,
       10, 11, 8, 9, 14, 15, 12, 13, 2, 3, 0, 1, 6, 7, 4, 5,
       11, 10, 9, 8, 15, 14, 13, 12, 3, 2, 1, 0, 7, 6, 5, 4,
       12, 13, 14, 15, 8, 9, 10, 11, 4, 5, 6, 7, 0, 1, 2, 3,
       13, 12, 15, 14, 9, 8, 11, 10, 5, 4, 7, 6, 1, 0, 3, 2,
       14, 15, 12, 13, 10, 11, 8, 9, 6, 7, 4, 5, 2, 3, 0, 1,
       15, 14, 13, 12, 11, 10, 9, 8, 7, 6, 5, 4, 3, 2, 1, 0
    >>

\* bitwise exclusive or of two bytes
Xor(a, b) ==
    XorNibble[16 * (a \div 16) + (b \div 16) + 1] * 16
    + XorNibble[16 * (a % 16) + (b % 16) + 1]

\* a 32-bit word is <<b3, b2, b1, b0>>, most significant byte first
XorWord(a, b) == <<Xor(a[1], b[1]), Xor(a[2], b[2]), Xor(a[3], b[3]), Xor(a[4], b[4])>>

\* zlib's crc_table for the reflected polynomial 0xEDB88320: entry i + 1 is
\* the CRC-32 remainder of the byte i
CrcTable ==
    <<
       <<0, 0, 0, 0>>, <<119, 7, 48, 150>>, <<238, 14, 97, 44>>, <<153, 9, 81, 186>>,
       <<7, 109, 196, 25>>, <<112, 106, 244, 143>>, <<233, 99, 165, 53>>, <<158, 100, 149, 163>>,
       <<14, 219, 136, 50>>, <<121, 220, 184, 164>>, <<224, 213, 233, 30>>, <<151, 210, 217, 136>>,
       <<9, 182, 76, 43>>, <<126, 177, 124, 189>>, <<231, 184, 45, 7>>, <<144, 191, 29, 145>>,
       <<29, 183, 16, 100>>, <<106, 176, 32, 242>>, <<243, 185, 113, 72>>, <<132, 190, 65, 222>>,
       <<26, 218, 212, 125>>, <<109, 221, 228, 235>>, <<244, 212, 181, 81>>, <<131, 211, 133, 199>>,
       <<19, 108, 152, 86>>, <<100, 107, 168, 192>>, <<253, 98, 249, 122>>, <<138, 101, 201, 236>>,
       <<20, 1, 92, 79>>, <<99, 6, 108, 217>>, <<250, 15, 61, 99>>, <<141, 8, 13, 245>>,
       <<59, 110, 32, 200>>, <<76, 105, 16, 94>>, <<213, 96, 65, 228>>, <<162, 103, 113, 114>>,
       <<60, 3, 228, 209>>, <<75, 4, 212, 71>>, <<210, 13, 133, 253>>, <<165, 10, 181, 107>>,
       <<53, 181, 168, 250>>, <<66, 178, 152, 108>>, <<219, 187, 201, 214>>, <<172, 188, 249, 64>>,
       <<50, 216, 108, 227>>, <<69, 223, 92, 117>>, <<220, 214, 13, 207>>, <<171, 209, 61, 89>>,
       <<38, 217, 48, 172>>, <<81, 222, 0, 58>>, <<200, 215, 81, 128>>, <<191, 208, 97, 22>>,
       <<33, 180, 244, 181>>, <<86, 179, 196, 35>>, <<207, 186, 149, 153>>, <<184, 189, 165, 15>>,
       <<40, 2, 184, 158>>, <<95, 5, 136, 8>>, <<198, 12, 217, 178>>, <<177, 11, 233, 36>>,
       <<47, 111, 124, 135>>, <<88, 104, 76, 17>>, <<193, 97, 29, 171>>, <<182, 102, 45, 61>>,
       <<118, 220, 65, 144>>, <<1, 219, 113, 6>>, <<152, 210, 32, 188>>, <<239, 213, 16, 42>>,
       <<113, 177, 133, 137>>, <<6, 182, 181, 31>>, <<159, 191, 228, 165>>, <<232, 184, 212, 51>>,
       <<120, 7, 201, 162>>, <<15, 0, 249, 52>>, <<150, 9, 168, 142>>, <<225, 14, 152, 24>>,
       <<127, 106, 13, 187>>, <<8, 109, 61, 45>>, <<145, 100, 108, 151>>, <<230, 99, 92, 1>>,
       <<107, 107, 81, 244>>, <<28, 108, 97, 98>>, <<133, 101, 48, 216>>, <<242, 98, 0, 78>>,
       <<108, 6, 149, 237>>, <<27, 1, 165, 123>>, <<130, 8, 244, 193>>, <<245, 15, 196, 87>>,
       <<101, 176, 217, 198>>, <<18, 183, 233, 80>>, <<139, 190, 184, 234>>, <<252, 185, 136, 124>>,
       <<98, 221, 29, 223>>, <<21, 218, 45, 73>>, <<140, 211, 124, 243>>, <<251, 212, 76, 101>>,
       <<77, 178, 97, 88>>, <<58, 181, 81, 206>>, <<163, 188, 0, 116>>, <<212, 187, 48, 226>>,
       <<74, 223, 165, 65>>, <<61, 216, 149, 215>>, <<164, 209, 196, 109>>, <<211, 214, 244, 251>>,
       <<67, 105, 233, 106>>, <<52, 110, 217, 252>>, <<173, 103, 136, 70>>, <<218, 96, 184, 208>>,
       <<68, 4, 45, 115>>, <<51, 3, 29, 229>>, <<170, 10, 76, 95>>, <<221, 13, 124, 201>>,
       <<80, 5, 113, 60>>, <<39, 2, 65, 170>>, <<190, 11, 16, 16>>, <<201, 12, 32, 134>>,
       <<87, 104, 181, 37>>, <<32, 111, 133, 179>>, <<185, 102, 212, 9>>, <<206, 97, 228, 159>>,
       <<94, 222, 249, 14>>, <<41, 217, 201, 152>>, <<176, 208, 152, 34>>, <<199, 215, 168, 180>>,
       <<89, 179, 61, 23>>, <<46, 180, 13, 129>>, <<183, 189, 92, 59>>, <<192, 186, 108, 173>>,
       <<237, 184, 131, 32>>, <<154, 191, 179, 182>>, <<3, 182, 226, 12>>, <<116, 177, 210, 154>>,
       <<234, 213, 71, 57>>, <<157, 210, 119, 175>>, <<4, 219, 38, 21>>, <<115, 220, 22, 131>>,
       <<227, 99, 11, 18>>, <<148, 100, 59, 132>>, <<13, 109, 106, 62>>, <<122, 106, 90, 168>>,
       <<228, 14, 207, 11>>, <<147, 9, 255, 157>>, <<10, 0, 174, 39>>, <<125, 7, 158, 177>>,
       <<240, 15, 147, 68>>, <<135, 8, 163, 210>>, <<30, 1, 242, 104>>, <<105, 6, 194, 254>>,
       <<247, 98, 87, 93>>, <<128, 101, 103, 203>>, <<25, 108, 54, 113>>, <<110, 107, 6, 231>>,
       <<254, 212, 27, 118>>, <<137, 211, 43, 224>>, <<16, 218, 122, 90>>, <<103, 221, 74, 204>>,
       <<249, 185, 223, 111>>, <<142, 190, 239, 249>>, <<23, 183, 190, 67>>, <<96, 176, 142, 213>>,
       <<214, 214, 163, 232>>, <<161, 209, 147, 126>>, <<56, 216, 194, 196>>, <<79, 223, 242, 82>>,
       <<209, 187, 103, 241>>, <<166, 188, 87, 103>>, <<63, 181, 6, 221>>, <<72, 178, 54, 75>>,
       <<216, 13, 43, 218>>, <<175, 10, 27, 76>>, <<54, 3, 74, 246>>, <<65, 4, 122, 96>>,
       <<223, 96, 239, 195>>, <<168, 103, 223, 85>>, <<49, 110, 142, 239>>, <<70, 105, 190, 121>>,
       <<203, 97, 179, 140>>, <<188, 102, 131, 26>>, <<37, 111, 210, 160>>, <<82, 104, 226, 54>>,
       <<204, 12, 119, 149>>, <<187, 11, 71, 3>>, <<34, 2, 22, 185>>, <<85, 5, 38, 47>>,
       <<197, 186, 59, 190>>, <<178, 189, 11, 40>>, <<43, 180, 90, 146>>, <<92, 179, 106, 4>>,
       <<194, 215, 255, 167>>, <<181, 208, 207, 49>>, <<44, 217, 158, 139>>, <<91, 222, 174, 29>>,
       <<155, 100, 194, 176>>, <<236, 99, 242, 38>>, <<117, 106, 163, 156>>, <<2, 109, 147, 10>>,
       <<156, 9, 6, 169>>, <<235, 14, 54, 63>>, <<114, 7, 103, 133>>, <<5, 0, 87, 19>>,
       <<149, 191, 74, 130>>, <<226, 184, 122, 20>>, <<123, 177, 43, 174>>, <<12, 182, 27, 56>>,
       <<146, 210, 142, 155>>, <<229, 213, 190, 13>>, <<124, 220, 239, 183>>, <<11, 219, 223, 33>>,
       <<134, 211, 210, 212>>, <<241, 212, 226, 66>>, <<104, 221, 179, 248>>, <<31, 218, 131, 110>>,
       <<129, 190, 22, 205>>, <<246, 185, 38, 91>>, <<111, 176, 119, 225>>, <<24, 183, 71, 119>>,
       <<136, 8, 90, 230>>, <<255, 15, 106, 112>>, <<102, 6, 59, 202>>, <<17, 1, 11, 92>>,
       <<143, 101, 158, 255>>, <<248, 98, 174, 105>>, <<97, 107, 255, 211>>, <<22, 108, 207, 69>>,
       <<160, 10, 226, 120>>, <<215, 13, 210, 238>>, <<78, 4, 131, 84>>, <<57, 3, 179, 194>>,
       <<167, 103, 38, 97>>, <<208, 96, 22, 247>>, <<73, 105, 71, 77>>, <<62, 110, 119, 219>>,
       <<174, 209, 106, 74>>, <<217, 214, 90, 220>>, <<64, 223, 11, 102>>, <<55, 216, 59, 240>>,
       <<169, 188, 174, 83>>, <<222, 187, 158, 197>>, <<71, 178, 207, 127>>, <<48, 181, 255, 233>>,
       <<189, 189, 242, 28>>, <<202, 186, 194, 138>>, <<83, 179, 147, 48>>, <<36, 180, 163, 166>>,
       <<186, 208, 54, 5>>, <<205, 215, 6, 147>>, <<84, 222, 87, 41>>, <<35, 217, 103, 191>>,
       <<179, 102, 122, 46>>, <<196, 97, 74, 184>>, <<93, 104, 27, 2>>, <<42, 111, 43, 148>>,
       <<180, 11, 190, 55>>, <<195, 12, 142, 161>>, <<90, 5, 223, 27>>, <<45, 2, 239, 141>>
    >>

CrcUpdate(w, b) ==
    LET t == CrcTable[Xor(w[4], b) + 1]
    IN  <<t[1], Xor(t[2], w[1]), Xor(t[3], w[2]), Xor(t[4], w[3])>>

\* the next byte, if there is one
CrcStep(w, s, i) == IF i > Len(s) THEN w ELSE CrcUpdate(w, s[i])

\* the word after the eight bytes from i on, as a one-element set; each
\* intermediate word is a bound variable, hence a value
CrcEight(w, s, i) ==
    {CrcStep(w7, s, i + 7) : w7 \in
    {CrcStep(w6, s, i + 6) : w6 \in
    {CrcStep(w5, s, i + 5) : w5 \in
    {CrcStep(w4, s, i + 4) : w4 \in
    {CrcStep(w3, s, i + 3) : w3 \in
    {CrcStep(w2, s, i + 2) : w2 \in
    {CrcStep(w1, s, i + 1) : w1 \in
    {CrcStep(w0, s, i) : w0 \in {w}}}}}}}}}

\* the bytes from i on, eight to a step
RECURSIVE CrcFold(_, _, _)
CrcFold(w, s, i) ==
    IF i > Len(s) THEN w
    ELSE CHOOSE r \in {CrcFold(w8, s, j) : w8 \in CrcEight(w, s, i), j \in {i + 8}} : TRUE

\* zlib.crc32(payload) & 0xFFFFFFFF, as four big-endian bytes
crc32(payload) ==
    CHOOSE r \in {XorWord(w, <<255, 255, 255, 255>>) :
                    w \in {CrcFold(<<255, 255, 255, 255>>, p, 1) : p \in {payload}}} : TRUE

\* struct.pack('>I', n) for 0 <= n < 2^31
U32(n) == <<(n \div 16777216) % 256, (n \div 65536) % 256, (n \div 256) % 256, n % 256>>

\* struct.unpack('>I', b) of a length field
FromU32(b) == ((b[1] * 256 + b[2]) * 256 + b[3]) * 256 + b[4]

(***************************************************************************)
(* JSON values.  Every value is a record [t, v]:                           *)
(*   "str"   v = sequence of code points      "int"  v = integer           *)
(*   "bool"  v = TRUE / FALSE                 "null" v = 0                  *)
(*   "float" v = the number's lexeme          "arr"  v = sequence of values*)
(*   "obj"   v = sequence of <<key, value>> pairs with distinct keys, in   *)
(*           insertion order (a Python dict)                               *)
(***************************************************************************)
JStr(s)  == [t |-> "str", v |-> s]
JInt(n)  == [t |-> "int", v |-> n]
JBool(b) == [t |-> "bool", v |-> b]
JNull    == [t |-> "null", v |-> 0]
JFloat(s) == [t |-> "float", v |-> s]
JArr(s)  == [t |-> "arr", v |-> s]
JObj(s)  == [t |-> "obj", v |-> s]

\* d[k] = v on a Python dict: replace in place or append
RECURSIVE DictSetAt(_, _, _, _)
DictSetAt(d, k, v, i) ==
    IF i > Len(d) THEN Append(d, <<k, v>>)
    ELSE IF d[i][1] = k THEN [d EXCEPT ![i] = <<k, v>>]
    ELSE DictSetAt(d, k, v, i + 1)

DictSet(d, k, v) == DictSetAt(d, k, v, 1)

DictHas(d, k) == \E i \in 1..Len(d) : d[i][1] = k

\* d.get(k, default)
DictGet(d, k, default) ==
    IF DictHas(d, k) THEN d[CHOOSE i \in 1..Len(d) : d[i][1] = k][2] ELSE default

\* == on JSON values as Python compares them: dicts regardless of order
RECURSIVE JsonEq(_, _)
JsonEq(a, b) ==
    /\ a.t = b.t
    /\ CASE a.t = "obj" ->
              /\ Len(a.v) = Len(b.v)
              /\ \A i \in 1..Len(a.v) :
                    /\ DictHas(b.v, a.v[i][1])
                    /\ JsonEq(a.v[i][2], DictGet(b.v, a.v[i][1], JNull))
         [] a.t = "arr" ->
              /\ Len(a.v) = Len(b.v)
              /\ \A i \in 1..Len(a.v) : JsonEq(a.v[i], b.v[i])
         [] OTHER -> a.v = b.v

(***************************************************************************)
(* json.dumps(data, ensure_ascii=False)                                    *)
(***************************************************************************)
HexDigit(d) == IF d < 10 THEN 48 + d ELSE 87 + d

\* json.encoder.py_encode_basestring: ESCAPE_DCT
EscapeChar(c) ==
    CASE c = 34 -> <<92, 34>>
      [] c = 92 -> <<92, 92>>
      [] c = 10 -> <<92, 110>>
      [] c = 13 -> <<92, 114>>
      [] c = 9  -> <<92, 116>>
      [] c = 8  -> <<92, 98>>
      [] c = 12 -> <<92, 102>>
      [] c < 32 /\ c \notin {8, 9, 10, 12, 13} ->
             <<92, 117, 48, 48, HexDigit(c \div 16), HexDigit(c % 16)>>
      [] OTHER -> <<c>>

\* the escaped characters lo..hi of s, concatenated (by halves)
RECURSIVE EscapeRange(_, _, _)
EscapeRange(s, lo, hi) ==
    IF lo > hi THEN <<>>
    ELSE IF lo = hi THEN EscapeChar(s[lo])
    ELSE LET mid == (lo + hi) \div 2
         IN  EscapeRange(s, lo, mid) \o EscapeRange(s, mid + 1, hi)

encode_basestring(s) == <<34>> \o EscapeRange(s, 1, Len(s)) \o <<34>>

RECURSIVE Digits(_)
Digits(n) == IF n < 10 THEN <<48 + n>> ELSE Digits(n \div 10) \o <<48 + (n % 10)>>

IntRepr(n) == IF n < 0 THEN <<45>> \o Digits(0 - n) ELSE Digits(n)

RECURSIVE json_dumps(_)
RECURSIVE DumpItems(_, _)
RECURSIVE DumpMembers(_, _)
json_dumps(x) ==
    CASE x.t = "str"   -> encode_basestring(x.v)
      [] x.t = "int"   -> IntRepr(x.v)
      [] x.t = "float" -> x.v
      [] x.t = "bool"  -> IF x.v THEN <<116, 114, 117, 101>> ELSE <<102, 97, 108, 115, 101>>
      [] x.t = "null"  -> <<110, 117, 108, 108>>
      [] x.t = "arr"   -> <<91>> \o DumpItems(x.v, 1) \o <<93>>
      [] x.t = "obj"   -> <<123>> \o DumpMembers(x.v, 1) \o <<125>>

\* item separator ", "
DumpItems(s, i) ==
    IF i > Len(s) THEN <<>>
    ELSE (IF i > 1 THEN <<44, 32>> ELSE <<>>) \o json_dumps(s[i]) \o DumpItems(s, i + 1)

\* key separator ": "
DumpMembers(s, i) ==
    IF i > Len(s) THEN <<>>
    ELSE (IF i > 1 THEN <<44, 32>> ELSE <<>>)
         \o encode_basestring(s[i][1]) \o <<58, 32>> \o json_dumps(s[i][2])
         \o DumpMembers(s, i + 1)

(***************************************************************************)
(* str.encode('utf-8') and bytes.decode('utf-8')                           *)
(***************************************************************************)
IsSurrogate(c) == c >= 55296 /\ c <= 57343

Utf8Char(c) ==
    IF c < 128 THEN <<c>>
    ELSE IF c < 2048 THEN <<192 + (c \div 64), 128 + (c % 64)>>
    ELSE IF c < 65536 THEN <<224 + (c \div 4096), 128 + ((c \div 64) % 64), 128 + (c % 64)>>
    ELSE <<240 + (c \div 262144), 128 + ((c \div 4096) % 64),
           128 + ((c \div 64) % 64), 128 + (c % 64)>>

\* the encodings of the characters lo..hi of s, concatenated (by halves)
RECURSIVE Utf8Range(_, _, _)
Utf8Range(s, lo, hi) ==
    IF lo > hi THEN <<>>
    ELSE IF lo = hi THEN Utf8Char(s[lo])
    ELSE LET mid == (lo + hi) \div 2
         IN  Utf8Range(s, lo, mid) \o Utf8Range(s, mid + 1, hi)

\* [ok, bytes]: a lone surrogate raises UnicodeEncodeError
Utf8Encode(s) ==
    IF \E i \in 1..Len(s) : IsSurrogate(s[i])
    THEN [ok |-> FALSE, bytes |-> <<>>]
    ELSE [ok |-> TRUE, bytes |-> Utf8Range(s, 1, Len(s))]

IsCont(b, i) == i <= Len(b) /\ b[i] >= 128 /\ b[i] <= 191

\* the length of the well-formed sequence that starts at byte i, 0 if none does
Utf8Len(b, i) ==
    LET c == b[i] IN
    IF c < 128 THEN 1
    ELSE IF c >= 194 /\ c <= 223 /\ IsCont(b, i + 1) THEN 2
    ELSE IF c >= 224 /\ c <= 239 /\ IsCont(b, i + 1) /\ IsCont(b, i + 2)
            /\ (c = 224 => b[i + 1] >= 160) /\ (c = 237 => b[i + 1] <= 159) THEN 3
    ELSE IF c >= 240 /\ c <= 244 /\ IsCont(b, i + 1) /\ IsCont(b, i + 2) /\ IsCont(b, i + 3)
            /\ (c = 240 => b[i + 1] >= 144) /\ (c = 244 => b[i + 1] <= 143) THEN 4
    ELSE 0

\* the code point of the sequence of length n that starts at byte i
Utf8Point(b, i, n) ==
    IF n = 1 THEN b[i]
    ELSE IF n = 2 THEN (b[i] - 192) * 64 + (b[i + 1] - 128)
    ELSE IF n = 3 THEN ((b[i] - 224) * 64 + (b[i + 1] - 128)) * 64 + (b[i + 2] - 128)
    ELSE (((b[i] - 240) * 64 + (b[i + 1] - 128)) * 64 + (b[i + 2] - 128)) * 64
         + (b[i + 3] - 128)

\* the code points of the sequences that start in lo..hi (by halves)
RECURSIVE Utf8Points(_, _, _)
Utf8Points(b, lo, hi) ==
    IF lo > hi THEN <<>>
    ELSE IF lo = hi
         THEN IF IsCont(b, lo) THEN <<>> ELSE <<Utf8Point(b, lo, Utf8Len(b, lo))>>
    ELSE LET mid == (lo + hi) \div 2
         IN  Utf8Points(b, lo, mid) \o Utf8Points(b, mid + 1, hi)

\* [ok, str]: an ill-formed sequence raises UnicodeDecodeError.  The bytes are
\* well formed when the first starts a sequence and every sequence is
\* well formed and ends where the next one starts.
Utf8Decode(b) ==
    IF /\ (Len(b) > 0 => ~IsCont(b, 1))
       /\ \A i \in 1..Len(b) :
             IsCont(b, i) \/ (/\ Utf8Len(b, i) > 0
                              /\ ~IsCont(b, i + Utf8Len(b, i)))
    THEN [ok |-> TRUE, str |-> Utf8Points(b, 1, Len(b))]
    ELSE [ok |-> FALSE, str |-> <<>>]

(***************************************************************************)
(* json.loads(text): the scanner of json.decoder / json.scanner.  A result *)
(* is [ok, val, next]; ok = FALSE stands for JSONDecodeError.              *)
(***************************************************************************)
ParseFail == [ok |-> FALSE, val |-> JNull, next |-> 0]

ParseOk(x, n) == [ok |-> TRUE, val |-> x, next |-> n]

\* s[i:i+1], -1 past the end
At(s, i) == IF i >= 1 /\ i <= Len(s) THEN s[i] ELSE -1

IsWs(c) == c \in {32, 9, 10, 13}

IsDigit(c) == c >= 48 /\ c <= 57

RECURSIVE SkipWs(_, _)
SkipWs(s, i) == IF IsWs(At(s, i)) THEN SkipWs(s, i + 1) ELSE i

RECURSIVE DigitsEnd(_, _)
DigitsEnd(s, i) == IF IsDigit(At(s, i)) THEN DigitsEnd(s, i + 1) ELSE i

RECURSIVE IntVal(_, _, _, _)
IntVal(s, i, j, acc) ==
    IF i >= j THEN acc
    ELSE Let(<<i + 1, acc * 10 + (s[i] - 48)>>, LAMBDA n : IntVal(s, n[1], j, n[2]))

HasLit(s, i, word) ==
    /\ i + Len(word) - 1 <= Len(s)
    /\ SubSeq(s, i, i + Len(word) - 1) = word

HexVal(c) ==
    IF c >= 48 /\ c <= 57 THEN c - 48
    ELSE IF c >= 97 /\ c <= 102 THEN c - 87
    ELSE IF c >= 65 /\ c <= 70 THEN c - 55
    ELSE -1

\* _decode_uXXXX: the four hex digits at i..i+3, -1 when they are not
Hex4(s, i) ==
    IF i + 3 <= Len(s) /\ \A k \in 0..3 : HexVal(s[i + k]) >= 0
    THEN ((HexVal(s[i]) * 16 + HexVal(s[i + 1])) * 16 + HexVal(s[i + 2])) * 16
         + HexVal(s[i + 3])
    ELSE -1

\* STRINGCHUNK = (.*?)(["\\\x00-\x1f]): the index of the next quote, backslash
\* or control character from i on, 0 when there is none
NextTerminator(s, i) ==
    LET T == {j \in i..Len(s) : s[j] = 34 \/ s[j] = 92 \/ s[j] < 32} IN
    IF T = {} THEN 0 ELSE CHOOSE j \in T : \A k \in T : j <= k

\* the escape at the backslash s[j], as [ok, char, next]
Escape(s, j) ==
    LET e == At(s, j + 1)
        one(c) == [ok |-> TRUE, char |-> c, next |-> j + 2]
        bad == [ok |-> FALSE, char |-> 0, next |-> 0]
    IN
    IF e \in {34, 92, 47} THEN one(e)
    ELSE IF e = 98 THEN one(8)
    ELSE IF e = 102 THEN one(12)
    ELSE IF e = 110 THEN one(10)
    ELSE IF e = 114 THEN one(13)
    ELSE IF e = 116 THEN one(9)
    ELSE IF e = 117 THEN
        LET u == Hex4(s, j + 2) IN
        IF u < 0 THEN bad
        ELSE IF u >= 55296 /\ u <= 56319 /\ At(s, j + 6) = 92 /\ At(s, j + 7) = 117
        THEN LET u2 == Hex4(s, j + 8) IN
             IF u2 < 0 THEN bad
             ELSE IF u2 >= 56320 /\ u2 <= 57343
             THEN [ok |-> TRUE, char |-> 65536 + (u - 55296) * 1024 + (u2 - 56320),
                   next |-> j + 12]
             ELSE [ok |-> TRUE, char |-> u, next |-> j + 6]
        ELSE [ok |-> TRUE, char |-> u, next |-> j + 6]
    ELSE bad

\* py_scanstring, strict: i is the index after the opening quote (or after
\* the last escape), acc the characters so far
RECURSIVE ScanString(_, _, _)
ScanString(s, i, acc) ==
    Let(NextTerminator(s, i), LAMBDA j :
        IF j = 0 THEN ParseFail
        ELSE IF s[j] = 34 THEN ParseOk(acc \o SubSeq(s, i, j - 1), j + 1)
        ELSE IF s[j] # 92 THEN ParseFail
        ELSE Let(Escape(s, j), LAMBDA e :
                 IF ~e.ok THEN ParseFail
                 ELSE Let(Append(acc \o SubSeq(s, i, j - 1), e.char), LAMBDA chunk :
                          ScanString(s, e.next, chunk))))

\* NUMBER_RE = (-?(?:0|[1-9]\d*))(\.\d+)?([eE][-+]?\d+)?
ParseNumber(s, i) ==
    LET j == IF At(s, i) = 45 THEN i + 1 ELSE i IN
    IF ~IsDigit(At(s, j)) THEN ParseFail
    ELSE
      LET intEnd == IF s[j] = 48 THEN j + 1 ELSE DigitsEnd(s, j)
          fracEnd == IF At(s, intEnd) = 46 /\ IsDigit(At(s, intEnd + 1))
                     THEN DigitsEnd(s, intEnd + 1) ELSE intEnd
          expStart == IF At(s, fracEnd + 1) \in {43, 45} THEN fracEnd + 2 ELSE fracEnd + 1
          expEnd == IF At(s, fracEnd) \in {69, 101} /\ IsDigit(At(s, expStart))
                    THEN DigitsEnd(s, expStart) ELSE fracEnd
      IN  IF expEnd = intEnd
          THEN ParseOk(JInt(IF j > i THEN 0 - IntVal(s, j, intEnd, 0)
                                     ELSE IntVal(s, j, intEnd, 0)), intEnd)
          ELSE ParseOk(JFloat(SubSeq(s, i, expEnd - 1)), expEnd)

RECURSIVE ParseValue(_, _)
RECURSIVE ObjLoop(_, _, _)
RECURSIVE ArrLoop(_, _, _)

\* JSONObject: i is the index after "{"
ParseObject(s, i) ==
    LET j == SkipWs(s, i) IN
    IF At(s, j) = 125 THEN ParseOk(JObj(<<>>), j + 1)
    ELSE IF At(s, j) # 34 THEN ParseFail
    ELSE ObjLoop(s, j + 1, <<>>)

\* JSONArray: i is the index after "["
ParseArray(s, i) ==
    LET j == SkipWs(s, i) IN
    IF At(s, j) = 93 THEN ParseOk(JArr(<<>>), j + 1)
    ELSE ArrLoop(s, j, <<>>)

\* scanner._scan_once
ParseValue(s, i) ==
    LET c == At(s, i) IN
    IF c = 34 THEN
        Let(ScanString(s, i + 1, <<>>), LAMBDA r :
            IF r.ok THEN ParseOk(JStr(r.val), r.next) ELSE ParseFail)
    ELSE IF c = 123 THEN ParseObject(s, i + 1)
    ELSE IF c = 91 THEN ParseArray(s, i + 1)
    ELSE IF c = 110 /\ HasLit(s, i, <<110, 117, 108, 108>>) THEN ParseOk(JNull, i + 4)
    ELSE IF c = 116 /\ HasLit(s, i, <<116, 114, 117, 101>>) THEN ParseOk(JBool(TRUE), i + 4)
    ELSE IF c = 102 /\ HasLit(s, i, <<102, 97, 108, 115, 101>>)
        THEN ParseOk(JBool(FALSE), i + 5)
    ELSE Let(ParseNumber(s, i), LAMBDA n :
        IF n.ok THEN n
        ELSE IF c = 78 /\ HasLit(s, i, <<78, 97, 78>>)
            THEN ParseOk(JFloat(<<78, 97, 78>>), i + 3)
        ELSE IF c = 73 /\ HasLit(s, i, <<73, 110, 102, 105, 110, 105, 116, 121>>)
            THEN ParseOk(JFloat(SubSeq(s, i, i + 7)), i + 8)
        ELSE IF c = 45 /\ HasLit(s, i + 1, <<73, 110, 102, 105, 110, 105, 116, 121>>)
            THEN ParseOk(JFloat(SubSeq(s, i, i + 8)), i + 9)
        ELSE ParseFail)

\* the value of a member and what follows it: [ok, val, sep, end, next], sep
\* the character after the value and the white space, end the index after
\* sep, next the index after the white space that follows sep
Member(s, i) ==
    Let(ParseValue(s, i), LAMBDA x :
        IF ~x.ok THEN [ok |-> FALSE, val |-> JNull, sep |-> -1, next |-> 0, end |-> 0]
        ELSE Let(SkipWs(s, x.next), LAMBDA e :
                 [ok |-> TRUE, val |-> x.val, sep |-> At(s, e),
                  next |-> SkipWs(s, e + 1), end |-> e + 1]))

\* i is the index after the opening quote of a key
ObjLoop(s, i, acc) ==
    Let(ScanString(s, i, <<>>), LAMBDA k :
        IF ~k.ok THEN ParseFail
        ELSE Let(SkipWs(s, k.next), LAMBDA colon :
            IF At(s, colon) # 58 THEN ParseFail
            ELSE Let(Member(s, SkipWs(s, colon + 1)), LAMBDA m :
                IF ~m.ok THEN ParseFail
                ELSE Let(DictSet(acc, k.val, m.val), LAMBDA acc2 :
                    IF m.sep = 125 THEN ParseOk(JObj(acc2), m.end)
                    ELSE IF m.sep # 44 THEN ParseFail
                    ELSE IF At(s, m.next) # 34 THEN ParseFail
                    ELSE ObjLoop(s, m.next + 1, acc2)))))

ArrLoop(s, i, acc) ==
    Let(Member(s, i), LAMBDA m :
        IF ~m.ok THEN ParseFail
        ELSE Let(Append(acc, m.val), LAMBDA acc2 :
            IF m.sep = 93 THEN ParseOk(JArr(acc2), m.end)
            ELSE IF m.sep # 44 THEN ParseFail
            ELSE ArrLoop(s, m.next, acc2)))

\* JSONDecoder.decode: one value, white space around it, nothing after it
json_loads(s) ==
    Let(ParseValue(s, SkipWs(s, 1)), LAMBDA r :
        IF ~r.ok THEN ParseFail
        ELSE IF SkipWs(s, r.next) # Len(s) + 1 THEN ParseFail
        ELSE r)

(***************************************************************************)
(* core/protocol.py: Protocol                                              *)
(***************************************************************************)
HEADER_SIZE == 8

\* pack with the length field counting characters where pack counts bytes
pack_chars(data) ==
    Let(json_dumps(data), LAMBDA text :
        Let(Utf8Encode(text), LAMBDA enc :
            IF ~enc.ok THEN [ok |-> FALSE, bytes |-> <<>>]
            ELSE [ok |-> TRUE,
                  bytes |-> U32(Len(text)) \o crc32(enc.bytes) \o enc.bytes]))

\* Protocol.pack(data): [ok, bytes]; ok = FALSE when .encode('utf-8') raises
pack(data) ==
    Let(Utf8Encode(json_dumps(data)), LAMBDA enc :
        IF ~enc.ok THEN [ok |-> FALSE, bytes |-> <<>>]
        ELSE LET payload  == enc.bytes
                 length   == Len(payload)
                 checksum == crc32(payload)
                 header   == U32(length) \o checksum
             IN  [ok |-> TRUE, bytes |-> header \o payload])

\* Protocol.unpack_header(header_bytes): (length, crc32)
unpack_header(header_bytes) ==
    [length |-> FromU32(SubSeq(header_bytes, 1, 4)), crc |-> SubSeq(header_bytes, 5, 8)]

\* Protocol.verify_crc(payload, expected_crc)
verify_crc(payload, expected_crc) == crc32(payload) = expected_crc

\* Protocol.parse_message(payload): "dict" (any JSON value), "none" on
\* JSONDecodeError, "raise" when .decode('utf-8') raises
parse_message(payload) ==
    Let(Utf8Decode(payload), LAMBDA dec :
        IF ~dec.ok THEN [kind |-> "raise", val |-> JNull]
        ELSE Let(json_loads(dec.str), LAMBDA r :
                 IF r.ok THEN [kind |-> "dict", val |-> r.val]
                 ELSE [kind |-> "none", val |-> JNull]))

(***************************************************************************)
(* The protocol's words as code points: MessageType (core/protocol.py) and *)
(* the field names and defaults of core/server_core.py.                    *)
(***************************************************************************)
Text ==
    [ type                |-> <<116, 121, 112, 101>>,
      register            |-> <<114, 101, 103, 105, 115, 116, 101, 114>>,
      user_id             |-> <<117, 115, 101, 114, 95, 105, 100>>,
      user_name           |-> <<117, 115, 101, 114, 95, 110, 97, 109, 101>>,
      avatar              |-> <<97, 118, 97, 116, 97, 114>>,
      Unknown             |-> <<85, 110, 107, 110, 111, 119, 110>>,
      user_joined         |-> <<117, 115, 101, 114, 95, 106, 111, 105, 110, 101, 100>>,
      user_left           |-> <<117, 115, 101, 114, 95, 108, 101, 102, 116>>,
      online_users        |-> <<111, 110, 108, 105, 110, 101, 95, 117, 115, 101, 114, 115>>,
      users               |-> <<117, 115, 101, 114, 115>>,
      chat_message        |-> <<99, 104, 97, 116, 95, 109, 101, 115, 115, 97, 103, 101>>,
      target              |-> <<116, 97, 114, 103, 101, 116>>,
      public              |-> <<112, 117, 98, 108, 105, 99>>,
      sender_id           |-> <<115, 101, 110, 100, 101, 114, 95, 105, 100>>,
      content             |-> <<99, 111, 110, 116, 101, 110, 116>>,
      typing_status       |-> <<116, 121, 112, 105, 110, 103, 95, 115, 116, 97, 116, 117, 115>>,
      ai_analysis_request |-> <<97, 105, 95, 97, 110, 97, 108, 121, 115, 105, 115, 95, 114, 101, 113, 117, 101, 115, 116>>,
      ping                |-> <<112, 105, 110, 103>>,
      pong                |-> <<112, 111, 110, 103>> ]

\* words of the client envelopes the server specification draws
Word ==
    [ bogus               |-> <<98, 111, 103, 117, 115>>,
      hi                  |-> <<104, 105>>,
      is_typing           |-> <<105, 115, 95, 116, 121, 112, 105, 110, 103>>,
      conversation_id     |-> <<99, 111, 110, 118, 101, 114, 115, 97, 116, 105, 111, 110, 95, 105, 100>>,
      a |-> <<97>>, b |-> <<98>>, A |-> <<65>>, B |-> <<66>>, c |-> <<99>> ]

(***************************************************************************)
(* State.                                                                  *)
(***************************************************************************)
VARIABLES
    \* --- a codec run: one envelope packed, sent and read back
    cPc,        \* "new", "packed", "raised", "read"
    cEnv,       \* the envelope handed to Protocol.pack
    cFrame,     \* the bytes pack returned
    cGot,       \* what the reader made of them: [length, crc, payload, crcOk, msg]
    \* --- PetChatServer (core/server_core.py)
    clients,    \* self.clients: a dict user_id -> [socket, name, avatar], as pairs
    conn,       \* each connection's socket: "open", "peer_closed", "closed"
    pc,         \* where each connection's handler thread stands
    user_id,    \* the handler's local user_id (JNull is None)
    reg,        \* the locals of _handle_register: [uid, name, avatar, users]
    outbox,     \* the frames written to each socket while its peer was there
    msg_count,  \* self.msg_count
    ai_req_count, \* self.ai_req_count
    recvd,      \* frames read so far
    scen,       \* how far the run has followed the end-to-end scenario, -1: left it
    last,       \* the frame read last and the connection it came on: [c, f]
    wire,       \* the codec's results on the frames and messages of the run
    \* --- CircuitBreaker (core/providers/retry.py)
    failure_threshold,            \* the three arguments of __init__
    recovery_timeout,
    half_open_success_threshold,
    state,              \* self.state: "closed", "open", "half_open"
    failure_count,      \* self.failure_count
    success_count,      \* self.success_count
    last_failure_time,  \* self.last_failure_time
    now,                \* what time.monotonic() returns
    streak,             \* record_failure calls since the last record_success
    trial,              \* record_success calls since the breaker last turned half_open
    probe,              \* the caller whose allow_request turned the breaker half_open
                        \* and who has recorded no outcome since, or "none"
    call,               \* the last call: [op, by, at, from, result]
    \* --- one function wrapped by retry_with_backoff (core/providers/retry.py)
    max_attempts,          \* the five arguments of retry_with_backoff
    base_delay,
    max_delay,
    exponential_base,
    retryable_exceptions,  \* a set of exception classes
    rPc,                   \* the wrapper: "idle", "try", "sleep", "done"
    attempt,               \* the loop variable of the wrapper
    last_exception,        \* the wrapper's local last_exception (JNull is None)
    delay,                 \* the delay the wrapper is sleeping for
    calls,                 \* what each invocation of func did, in order
    sleeps,                \* the arguments of the time.sleep calls, in order
    rResult,               \* how the wrapper ended: [kind, val, err, last_exception]
    \* --- one call of AIService.analyze_emotion (core/ai_service.py)
    recent_messages,       \* how many messages the caller hands over
    content,               \* what _make_request returns: "None" or "text"
    emotion_data,          \* what _extract_json makes of the content
    ePc,                   \* "new", "done"
    eResult,               \* [kind, val, cls]: the dict returned or the exception raised
    \* --- RelayServer (relay_server.py)
    rooms,      \* self.rooms: room_id -> role -> connection
    rclients,   \* self.clients: connection -> [room_id, role, last_seen]
    rSock,      \* each connection's socket: "open", "closed"
    hPc,        \* each connection's _handle_client thread: "recv", "done"
    hRoom,      \* the handler's local room_id (JNull is None)
    hRole,      \* the handler's local role (JNull is None)
    rOut,       \* what has been written to each connection, in order
    rNow,       \* what time.time() returns
    rRecvd,     \* frames read so far
    rLast,      \* the frame read last and the connection it came on: [c, f]
    rWire,      \* the frames of the run: their bytes and what json.loads makes of them
    \* --- NetworkManager (core/network.py)
    use_relay,         \* self.use_relay
    is_host,           \* self.is_host
    running,           \* self.running
    reconnect_active,  \* self._reconnect_active
    nSock,             \* self.socket: "none", "open", "lost" (the peer is gone), "closed"
    lPc,               \* each reconnect loop thread: "idle", "new", "test", "sleep",
                       \* "connect", "won", "done"
    lInitial,          \* the loop's argument initial
    lFirst,            \* the loop's local first_attempt
    lDelay,            \* the loop's local delay
    lWaits,            \* the delays the loop has slept, in order
    lWon,              \* whether the loop's last connect attempt succeeded
    ioPc,              \* the receive and heartbeat threads: "off", "loop", "check",
                       \* "stop", "spawn"
    nConnects,         \* connections made so far
    user_stopped,      \* history: the application has called stop()
    \* --- AIService (core/ai_service.py), sharing the CircuitBreaker variables
    api_key,                 \* self.api_key, a string as its bytes
    model,                   \* self.model
    api_base,                \* self.api_base
    empty_response_retries,  \* self.empty_response_retries
    aPc,         \* each caller's _make_request: "idle", "try", "sleep", "done"
    aAttempt,    \* the loop variable attempt of the caller's request
    aCalls,      \* provider.generate_content calls of the caller's request
    aLog,        \* the circuit breaker methods the caller's request has called
    aResult,     \* how the caller's request ended: [kind, val]
    aReqs,       \* requests started so far
    aLast,       \* the step taken last: [by, op, arg]
    \* --- PetChatServer's registry lock and the delivery of AI results (server.py)
    clients_lock,  \* self.clients_lock: the thread that holds it, "" when free
    kClients,      \* self.clients: user_id -> the socket of its entry, "" when absent
    kConn,         \* each connection's socket: "open", "closed"
    kPc,           \* where each thread is: handlers "recv" ... "done", the main thread "idle" ...
    kUid,          \* each handler's local user_id, "" for None
    kReg,          \* the user_id of the register a handler is handling
    kThen,         \* what a handler does when its _broadcast returns
    kTodo,         \* the sockets a thread's _broadcast loop has still to write to
    kWrite,        \* the socket a thread's sendall is writing to, "" when none
    kReqs,         \* AI requests whose result is not ready yet: [id, uid, from]
    kCur,          \* the result _on_ai_result is sending: [id, uid, from, todo]
    kOut,          \* the AI results written to each connection, in order
    kOps,          \* frames and closes handled so far
    \* --- OpenAIProvider (core/providers/openai_provider.py), with the retry variables
    oKey,        \* self.api_key, a string as its characters
    oModel,      \* self.model
    oBase,       \* self.base_url
    oMessages,   \* the messages argument of generate_content, a JSON value
    oPc,         \* generate_content: "new", "request", "done"
    oResult,     \* how generate_content ended: [kind, none, val]
    \* --- the relay's monitor thread (relay_server.py), with the relay variables
    mStale,      \* _monitor_loop: the stale (conn, meta) pairs it has still to clean up
    \* --- the relay's writes to its sockets (relay_server.py), with the relay variables
    wPend,       \* per connection: the payload its handler's _send_raw has still to write
    \* --- NetworkManager (core/network.py): one connection's threads and its wire
    bRelay,      \* self.use_relay
    bRunning,    \* self.running
    bCur,        \* self.socket: the number of the connection it is, 0 for None
    bSock,       \* per connection made: "none", "open", "closed"
    bWire,       \* per connection: the types of the frames written to it, in order
    bLast,       \* self.last_heartbeat
    bHeard,      \* when a heartbeat frame was last processed (or the threads started)
    bNow,        \* time.time()
    bConn,       \* the connecting thread: "connect", "start_io", "register", "idle"
    bHb,         \* per connection, its heartbeat thread: "off", "send", "check", "sleep", "ended"
    bRx,         \* per connection, its receive thread: "off", "loop", "ended"
    bRecvd       \* frames processed so far

codecVars == <<cPc, cEnv, cFrame, cGot>>

serverVars == <<clients, conn, pc, user_id, reg, outbox, msg_count, ai_req_count,
                recvd, scen, last, wire>>

breakerVars == <<failure_threshold, recovery_timeout, half_open_success_threshold,
                 state, failure_count, success_count, last_failure_time, now,
                 streak, trial, probe, call>>

retryVars == <<max_attempts, base_delay, max_delay, exponential_base,
               retryable_exceptions, rPc, attempt, last_exception, delay, calls, sleeps,
               rResult>>

\* the variables of the components that came after the first three
emotionVars == <<recent_messages, content, emotion_data, ePc, eResult>>

relayVars == <<rooms, rclients, rSock, hPc, hRoom, hRole, rOut, rNow, rRecvd, rLast, rWire>>

netVars == <<use_relay, is_host, running, reconnect_active, nSock, lPc, lInitial,
             lFirst, lDelay, lWaits, lWon, ioPc, nConnects, user_stopped>>

aiVars == <<api_key, model, api_base, empty_response_retries, aPc, aAttempt,
            aCalls, aLog, aResult, aReqs, aLast>>

lockVars == <<clients_lock, kClients, kConn, kPc, kUid, kReg, kThen, kTodo, kWrite,
              kReqs, kCur, kOut, kOps>>

providerVars == <<oKey, oModel, oBase, oMessages, oPc, oResult>>

monVars == <<mStale>>

sendVars == <<wPend>>

beatVars == <<bRelay, bRunning, bCur, bSock, bWire, bLast, bHeard, bNow, bConn,
              bHb, bRx, bRecvd>>

laterVars == <<retryVars, emotionVars, relayVars, netVars, aiVars, lockVars, providerVars, monVars, sendVars, beatVars>>

\* what the actions of one component leave alone
notRetry == <<codecVars, serverVars, breakerVars, emotionVars, relayVars, netVars, aiVars, lockVars, providerVars, monVars, sendVars, beatVars>>
notEmotion == <<codecVars, serverVars, breakerVars, retryVars, relayVars, netVars, aiVars, lockVars, providerVars, monVars, sendVars, beatVars>>
notRelay == <<codecVars, serverVars, breakerVars, retryVars, emotionVars, netVars, aiVars, lockVars, providerVars, monVars, sendVars, beatVars>>
notNet == <<codecVars, serverVars, breakerVars, retryVars, emotionVars,
             relayVars, aiVars, lockVars, providerVars, monVars, sendVars, beatVars>>
\* the AI service works on the circuit breaker's variables
notAi == <<codecVars, serverVars, retryVars, emotionVars, relayVars, netVars, lockVars, providerVars, monVars, sendVars, beatVars>>
notLock == <<codecVars, serverVars, breakerVars, retryVars, emotionVars,
              relayVars, netVars, aiVars, providerVars, monVars, sendVars, beatVars>>
notProvider == <<codecVars, serverVars, breakerVars, emotionVars,
                  relayVars, netVars, aiVars, lockVars, monVars, sendVars, beatVars>>
\* the monitor thread works on the relay's variables
notMon == <<codecVars, serverVars, breakerVars, retryVars, emotionVars,
             netVars, aiVars, lockVars, providerVars, sendVars, beatVars>>
\* the writes of the handlers work on the relay's variables
notSend == <<codecVars, serverVars, breakerVars, retryVars, emotionVars,
              netVars, aiVars, lockVars, providerVars, monVars, beatVars>>
notBeat == <<codecVars, serverVars, breakerVars, retryVars, emotionVars,
              relayVars, netVars, aiVars, lockVars, providerVars, monVars,
              sendVars>>

vars == <<cPc, cEnv, cFrame, cGot, clients, conn, pc, user_id, reg, outbox, msg_count,
          ai_req_count, recvd, scen, wire, last,
          failure_threshold, recovery_timeout, half_open_success_threshold, state,
          failure_count, success_count, last_failure_time, now, streak, trial, probe,
          call, laterVars>>

(***************************************************************************)
(* The codec on its own: Protocol.pack, then the reader's side as the read *)
(* loops do it (header, unpack_header, payload, verify_crc, parse_message).*)
(***************************************************************************)
\* characters that need one to four bytes, an escape or nothing
Alphabet == {97, 34, 92, 10, 1, 233, 8364, 128512}

Strings == UNION {[1..n -> Alphabet] : n \in 0..MaxStrLen}

ShortStrings == UNION {[1..n -> Alphabet] : n \in 0..1}

Scalars ==
    {JInt(n) : n \in {0, 7, -1, 120, -4096}} \cup {JBool(TRUE), JBool(FALSE), JNull}

Nested ==
    { JArr(<<>>), JObj(<<>>), JArr(<<JInt(1), JStr(<<97>>), JNull>>),
      JObj(<< <<<<107>>, JArr(<<JBool(FALSE)>>)>> >>) }

\* the envelopes the codec specification draws from
Envelopes ==
    {JObj(<<>>)}
    \cup {JObj(<< <<Text.type, JStr(s)>> >>) : s \in Strings}
    \cup {JObj(<< <<s, JStr(Text.ping)>> >>) : s \in Strings}
    \cup {JObj(<< <<Text.type, x>> >>) : x \in Scalars \cup Nested}
    \cup {JObj(<< <<Text.type, JStr(Text.chat_message)>>, <<Text.content, JStr(s)>>,
                  <<<<110>>, x>> >>) : s \in ShortStrings, x \in Scalars \cup Nested}

\* the variables of a component that a specification leaves out
CodecOff == cPc = "off" /\ cEnv = JNull /\ cFrame = <<>> /\ cGot = <<>>

ServerOff ==
    /\ clients = <<>> /\ conn = <<>> /\ pc = <<>> /\ user_id = <<>> /\ reg = <<>>
    /\ outbox = <<>> /\ msg_count = 0 /\ ai_req_count = 0 /\ recvd = 0 /\ scen = 0
    /\ last = <<>> /\ wire = <<>>

BreakerOff ==
    /\ failure_threshold = 0 /\ recovery_timeout = 0 /\ half_open_success_threshold = 0
    /\ state = "off" /\ failure_count = 0 /\ success_count = 0
    /\ last_failure_time = 0 /\ now = 0 /\ streak = 0 /\ trial = 0
    /\ probe = "none" /\ call = <<>>

RetryOff ==
    /\ max_attempts = 0 /\ base_delay = 0 /\ max_delay = 0 /\ exponential_base = 0
    /\ retryable_exceptions = {} /\ rPc = "off" /\ attempt = 0
    /\ last_exception = <<>> /\ delay = 0 /\ calls = <<>> /\ sleeps = <<>>
    /\ rResult = <<>>

EmotionOff ==
    /\ recent_messages = 0 /\ content = "None" /\ emotion_data = JNull /\ ePc = "off"
    /\ eResult = <<>>

RelayOff ==
    /\ rooms = <<>> /\ rclients = <<>> /\ rSock = <<>> /\ hPc = <<>> /\ hRoom = <<>>
    /\ hRole = <<>> /\ rOut = <<>> /\ rNow = 0 /\ rRecvd = 0 /\ rLast = <<>>
    /\ rWire = <<>>

NetOff ==
    /\ use_relay = FALSE /\ is_host = FALSE /\ running = FALSE
    /\ reconnect_active = FALSE /\ nSock = "none" /\ lPc = <<>> /\ lInitial = <<>>
    /\ lFirst = <<>> /\ lDelay = <<>> /\ lWaits = <<>> /\ lWon = <<>> /\ ioPc = <<>>
    /\ nConnects = 0 /\ user_stopped = FALSE

AiOff ==
    /\ api_key = <<>> /\ model = <<>> /\ api_base = <<>> /\ empty_response_retries = 0
    /\ aPc = <<>> /\ aAttempt = <<>> /\ aCalls = <<>> /\ aLog = <<>> /\ aResult = <<>>
    /\ aReqs = 0 /\ aLast = <<>>

LockOff ==
    /\ clients_lock = "" /\ kClients = <<>> /\ kConn = <<>> /\ kPc = <<>> /\ kUid = <<>>
    /\ kReg = <<>> /\ kThen = <<>> /\ kTodo = <<>> /\ kWrite = <<>> /\ kReqs = <<>>
    /\ kCur = <<>> /\ kOut = <<>> /\ kOps = 0

ProviderOff ==
    /\ oKey = <<>> /\ oModel = <<>> /\ oBase = <<>> /\ oMessages = JNull /\ oPc = "off"
    /\ oResult = <<>>

MonOff ==
    /\ mStale = {}

SendOff ==
    /\ wPend = <<>>

BeatOff ==
    /\ bRelay = FALSE /\ bRunning = FALSE /\ bCur = 0 /\ bSock = <<>> /\ bWire = <<>>
    /\ bLast = 0 /\ bHeard = 0 /\ bNow = 0 /\ bConn = "off" /\ bHb = <<>> /\ bRx = <<>>
    /\ bRecvd = 0

LaterOff == RetryOff /\ EmotionOff /\ RelayOff /\ NetOff /\ AiOff /\ LockOff /\ ProviderOff /\ MonOff /\ SendOff /\ BeatOff

\* everything but one component is left out
OnlyRetry == CodecOff /\ ServerOff /\ BreakerOff /\ EmotionOff /\ RelayOff /\ NetOff /\ AiOff /\ LockOff /\ ProviderOff /\ MonOff /\ SendOff /\ BeatOff
OnlyEmotion == CodecOff /\ ServerOff /\ BreakerOff /\ RetryOff /\ RelayOff /\ NetOff /\ AiOff /\ LockOff /\ ProviderOff /\ MonOff /\ SendOff /\ BeatOff
OnlyRelay == CodecOff /\ ServerOff /\ BreakerOff /\ RetryOff /\ EmotionOff /\ NetOff /\ AiOff /\ LockOff /\ ProviderOff /\ MonOff /\ SendOff /\ BeatOff
OnlyNet == CodecOff /\ ServerOff /\ BreakerOff /\ RetryOff /\ EmotionOff /\ RelayOff /\ AiOff /\ LockOff /\ ProviderOff /\ MonOff /\ SendOff /\ BeatOff
OnlyAi == CodecOff /\ ServerOff /\ RetryOff /\ EmotionOff /\ RelayOff /\ NetOff /\ LockOff /\ ProviderOff /\ MonOff /\ SendOff /\ BeatOff
OnlyLock == CodecOff /\ ServerOff /\ BreakerOff /\ RetryOff /\ EmotionOff /\ RelayOff /\ NetOff /\ AiOff /\ ProviderOff /\ MonOff /\ SendOff /\ BeatOff
OnlyProvider == CodecOff /\ ServerOff /\ BreakerOff /\ EmotionOff /\ RelayOff /\ NetOff /\ AiOff /\ LockOff /\ MonOff /\ SendOff /\ BeatOff
OnlyMon == CodecOff /\ ServerOff /\ BreakerOff /\ RetryOff /\ EmotionOff /\ NetOff /\ AiOff /\ LockOff /\ ProviderOff /\ SendOff /\ BeatOff
OnlySend == CodecOff /\ ServerOff /\ BreakerOff /\ RetryOff /\ EmotionOff /\ NetOff /\ AiOff /\ LockOff /\ ProviderOff /\ MonOff /\ BeatOff
OnlyBeat == CodecOff /\ ServerOff /\ BreakerOff /\ RetryOff /\ EmotionOff /\ RelayOff /\ NetOff /\ AiOff /\ LockOff /\ ProviderOff /\ MonOff /\ SendOff

CodecInit ==
    /\ cPc = "new"
    /\ cEnv \in Envelopes
    /\ cFrame = <<>>
    /\ cGot = [length |-> 0, crc |-> <<>>, payload |-> <<>>, crcOk |-> FALSE,
               msg |-> [kind |-> "none", val |-> JNull]]
    /\ ServerOff
    /\ BreakerOff
    /\ LaterOff

\* packet = Protocol.pack(data)
CodecPack ==
    /\ cPc = "new"
    /\ LET r == pack(cEnv) IN
         /\ cPc' = IF r.ok THEN "packed" ELSE "raised"
         /\ cFrame' = r.bytes
    /\ UNCHANGED <<cEnv, cGot>>
    /\ UNCHANGED <<serverVars, breakerVars, laterVars>>

\* header = recv(HEADER_SIZE); length, crc = unpack_header(header);
\* payload = recv(length); verify_crc(payload, crc); parse_message(payload)
CodecRead ==
    /\ cPc = "packed"
    /\ LET header  == SubSeq(cFrame, 1, HEADER_SIZE)
            h       == unpack_header(header)
            payload == SubSeq(cFrame, HEADER_SIZE + 1, HEADER_SIZE + h.length)
       IN  cGot' = [length |-> h.length, crc |-> h.crc, payload |-> payload,
                    crcOk |-> verify_crc(payload, h.crc),
                    msg |-> parse_message(payload)]
    /\ cPc' = "read"
    /\ UNCHANGED <<cEnv, cFrame>>
    /\ UNCHANGED <<serverVars, breakerVars, laterVars>>

CodecNext == CodecPack \/ CodecRead

SpecCodec == CodecInit /\ [][CodecNext]_vars

(***************************************************************************)
(* core/server_core.py: PetChatServer.                                     *)
(*                                                                         *)
(* One handler thread per connection runs _handle_client_connection.  A    *)
(* step of the model is what a thread does up to and including one         *)
(* critical section of self.clients_lock (or one socket operation outside  *)
(* it); the threads' steps interleave freely.  A socket is "open" (its     *)
(* peer is there and reads what is written), "peer_closed" (the peer is    *)
(* gone, the handler has not closed yet: writes reach nobody) or "closed"  *)
(* (sock.close() was called: sendall raises, _send_raw swallows it).       *)
(***************************************************************************)
Conns == {"A", "B"}

\* what a writer puts on the wire for a payload: header, then payload
MakeFrame(payload) ==
    Let(payload, LAMBDA p : U32(Len(p)) \o crc32(p) \o p)

\* the envelopes clients send in the runs of the server specification
ClientEnvelopes ==
    [ RegA    |-> JObj(<< <<Text.type, JStr(Text.register)>>,
                          <<Text.user_id, JStr(Word.a)>>,
                          <<Text.user_name, JStr(Word.A)>>,
                          <<Text.avatar, JStr(<<>>)>> >>),
      RegB    |-> JObj(<< <<Text.type, JStr(Text.register)>>,
                          <<Text.user_id, JStr(Word.b)>> >>),
      RegNoId |-> JObj(<< <<Text.type, JStr(Text.register)>>,
                          <<Text.user_name, JStr(Word.c)>> >>),
      ChatA   |-> JObj(<< <<Text.type, JStr(Text.chat_message)>>,
                          <<Text.sender_id, JStr(Word.a)>>,
                          <<Text.target, JStr(Text.public)>>,
                          <<Text.content, JStr(Word.hi)>> >>),
      ChatHi  |-> JObj(<< <<Text.type, JStr(Text.chat_message)>>,
                          <<Text.target, JStr(Text.public)>>,
                          <<Text.content, JStr(Word.hi)>> >>),
      ChatToB |-> JObj(<< <<Text.type, JStr(Text.chat_message)>>,
                          <<Text.sender_id, JStr(Word.a)>>,
                          <<Text.target, JStr(Word.b)>>,
                          <<Text.content, JStr(Word.hi)>> >>),
      Typing  |-> JObj(<< <<Text.type, JStr(Text.typing_status)>>,
                          <<Text.sender_id, JStr(Word.a)>>,
                          <<Word.is_typing, JBool(TRUE)>> >>),
      AiReq   |-> JObj(<< <<Text.type, JStr(Text.ai_analysis_request)>>,
                          <<Word.conversation_id, JStr(Word.c)>> >>),
      Ping    |-> JObj(<< <<Text.type, JStr(Text.ping)>> >>),
      Bogus   |-> JObj(<< <<Text.type, JStr(Word.bogus)>> >>),
      NoType  |-> JObj(<< <<Text.content, JStr(Word.hi)>> >>) ]

\* the frames clients send: the envelopes packed, and frames that are damaged
\* or carry no envelope
ClientFrames ==
    Let([n \in DOMAIN ClientEnvelopes |-> pack(ClientEnvelopes[n]).bytes] @@ <<>>,
        LAMBDA good :
        good @@
        [ \* RegB's payload under the checksum of another payload
          BadCrc    |-> SubSeq(good.RegB, 1, 4)
                        \o SubSeq(good.Ping, 5, HEADER_SIZE)
                        \o SubSeq(good.RegB, HEADER_SIZE + 1, Len(good.RegB)),
          \* a payload cut short, with its own checksum
          BadJson   |-> MakeFrame(SubSeq(good.RegA, HEADER_SIZE + 1, HEADER_SIZE + 19)),
          \* bytes that are not UTF-8, with their own checksum
          BadUtf8   |-> MakeFrame(<<255, 254>>),
          \* JSON that is no object
          NonObject |-> MakeFrame(<<91, 93>>),
          \* a header that announces no payload
          ZeroLen   |-> MakeFrame(<<>>) ])

\* json.loads(payload.decode('utf-8')) in the read loop's try block:
\* [ok, val], ok = FALSE when either raises
loads_payload(payload) ==
    Let(Utf8Decode(payload), LAMBDA dec :
        IF ~dec.ok THEN [ok |-> FALSE, val |-> JNull]
        ELSE Let(json_loads(dec.str), LAMBDA r : [ok |-> r.ok, val |-> r.val]))

\* the read loop on one frame, up to the decoded message
ReadFrame(f) ==
    Let(unpack_header(SubSeq(f, 1, HEADER_SIZE)), LAMBDA h :
        Let(SubSeq(f, HEADER_SIZE + 1, HEADER_SIZE + h.length), LAMBDA payload :
            [length |-> h.length, crcOk |-> verify_crc(payload, h.crc),
             msg |-> loads_payload(payload)]))

UserJoinedMsg(r) ==
    JObj(<< <<Text.type, JStr(Text.user_joined)>>, <<Text.user_id, r.uid>>,
            <<Text.user_name, r.name>>, <<Text.avatar, r.avatar>> >>)

UserLeftMsg(uid) ==
    JObj(<< <<Text.type, JStr(Text.user_left)>>, <<Text.user_id, uid>> >>)

UserEntry(r) ==
    JObj(<< <<Text.user_id, r.uid>>, <<Text.user_name, r.name>>,
            <<Text.avatar, r.avatar>> >>)

OnlineUsersMsg(users) ==
    JObj(<< <<Text.type, JStr(Text.online_users)>>, <<Text.users, JArr(users)>> >>)

PongMsg == JObj(<< <<Text.type, JStr(Text.pong)>> >>)

\* message.get(key, default)
Get(message, key, default) == DictGet(message.v, key, default)

\* the three fields _handle_register reads, with its defaults
RegFields(message) ==
    [uid    |-> Get(message, Text.user_id, JNull),
     name   |-> Get(message, Text.user_name, JStr(Text.Unknown)),
     avatar |-> Get(message, Text.avatar, JStr(<<>>))]

\* the frames the clients of the server draw from
ServerFrames ==
    {"RegA", "RegB", "ChatHi", "Bogus", "NoType",
     "BadCrc", "BadJson", "NonObject", "ZeroLen"}

\* the messages the server may send when the decoded client messages are objs
Answers(objs) ==
    LET typeOf(m) == Get(m, Text.type, JNull)
        fwd   == {m \in objs : typeOf(m) \in {JStr(Text.chat_message),
                                              JStr(Text.typing_status)}}
        regs  == {RegFields(m) : m \in {x \in objs : typeOf(x) = JStr(Text.register)}}
        lists == {s \in UNION {[1..n -> regs] : n \in 0..2} :
                     \A i, j \in 1..Len(s) : i # j => s[i].uid # s[j].uid}
    IN  fwd \cup {PongMsg}
        \cup {UserJoinedMsg(r) : r \in regs}
        \cup {UserLeftMsg(r.uid) : r \in regs}
        \cup {OnlineUsersMsg([i \in 1..Len(s) |-> UserEntry(s[i])]) : s \in lists}

\* The codec applied once to every frame a client may send and to every
\* envelope the server may send in answer (the handlers look the results up)
WireTable(names) ==
    Let([n \in names |-> ClientFrames[n]] @@ <<>>, LAMBDA frames :
        Let([f \in {frames[n] : n \in names} |-> ReadFrame(f)] @@ <<>>, LAMBDA dec :
            LET objs == {dec[f].msg.val : f \in {g \in DOMAIN dec :
                            dec[g].crcOk /\ dec[g].msg.ok /\ dec[g].msg.val.t = "obj"}}
            IN  [frames |-> frames, dec |-> dec,
                 enc |-> [m \in Answers(objs) |-> pack(m)] @@ <<>>]))

\* pack_message(message), looked up when the table holds it
pack_message(message) ==
    IF message \in DOMAIN wire.enc THEN wire.enc[message] ELSE pack(message)

\* the server's state as one value, for the handlers to work on
Server ==
    [clients |-> clients, conn |-> conn, pc |-> pc, user_id |-> user_id, reg |-> reg,
     outbox |-> outbox, msg_count |-> msg_count, ai_req_count |-> ai_req_count]

Becomes(s) ==
    \E x \in {s} :
        /\ clients' = x.clients
        /\ conn' = x.conn
        /\ pc' = x.pc
        /\ user_id' = x.user_id
        /\ reg' = x.reg
        /\ outbox' = x.outbox
        /\ msg_count' = x.msg_count
        /\ ai_req_count' = x.ai_req_count

NoReg == [uid |-> JNull, name |-> JNull, avatar |-> JNull, users |-> <<>>]

\* bool(x) of a JSON value
Truthy(x) ==
    CASE x.t = "null" -> FALSE
      [] x.t = "bool" -> x.v
      [] x.t = "int"  -> x.v # 0
      [] x.t \in {"str", "arr", "obj"} -> x.v # <<>>
      [] OTHER -> TRUE

\* a list or a dict cannot be a dict key (TypeError)
Hashable(x) == x.t \notin {"arr", "obj"}

\* del d[k], k in d
DictDel(d, k) == SelectSeq(d, LAMBDA e : e[1] # k)

\* _send_raw(sock, message): every error is swallowed
send_raw(s, sock, message) ==
    LET packet == pack_message(message) IN
    IF packet.ok /\ s.conn[sock] = "open"
    THEN [s EXCEPT !.outbox[sock] = Append(@, packet.bytes)]
    ELSE s

\* the loop of _broadcast from entry i on, the lock held throughout
RECURSIVE BroadcastFrom(_, _, _, _)
BroadcastFrom(s, message, exclude, i) ==
    IF i > Len(s.clients) THEN s
    ELSE IF s.clients[i][1] = exclude THEN BroadcastFrom(s, message, exclude, i + 1)
    ELSE Let(send_raw(s, s.clients[i][2].socket, message), LAMBDA s2 :
             BroadcastFrom(s2, message, exclude, i + 1))

\* _broadcast(message, exclude)
broadcast(s, message, exclude) == BroadcastFrom(s, message, exclude, 1)

\* _handle_register adding an entry where it should assign to the key
handle_register_append(s, c, message) ==
    LET r == RegFields(message) IN
    [s EXCEPT !.clients = Append(@, <<r.uid, [socket |-> c, name |-> r.name,
                                               avatar |-> r.avatar]>>),
              !.reg[c] = [uid |-> r.uid, name |-> r.name, avatar |-> r.avatar,
                          users |-> <<>>],
              !.pc[c] = "reg_bcast"]

\* _handle_register, lines 220-230: the fields and the insertion
handle_register(s, c, message) ==
    LET r == RegFields(message) IN
    [s EXCEPT !.clients = DictSet(@, r.uid, [socket |-> c, name |-> r.name,
                                             avatar |-> r.avatar]),
              !.reg[c] = [uid |-> r.uid, name |-> r.name, avatar |-> r.avatar,
                          users |-> <<>>],
              !.pc[c] = "reg_bcast"]

\* _handle_register, lines 237-242: user_joined to the others
register_notify(s, c) ==
    [broadcast(s, UserJoinedMsg(s.reg[c]), s.reg[c].uid) EXCEPT !.pc[c] = "reg_users"]

\* the list of users without the filter uid != user_id
register_collect_all(s, c) ==
    LET users == [i \in 1..Len(s.clients) |->
                     UserEntry([uid |-> s.clients[i][1], name |-> s.clients[i][2].name,
                                avatar |-> s.clients[i][2].avatar])]
    IN  [s EXCEPT !.reg[c].users = users, !.pc[c] = "reg_send"]

\* _handle_register, lines 245-253: the list of the other users
register_collect(s, c) ==
    LET others == SelectSeq(s.clients, LAMBDA e : e[1] # s.reg[c].uid)
        users  == [i \in 1..Len(others) |->
                     UserEntry([uid |-> others[i][1], name |-> others[i][2].name,
                                avatar |-> others[i][2].avatar])]
    IN  [s EXCEPT !.reg[c].users = users, !.pc[c] = "reg_send"]

\* _handle_register, lines 254-255, and the assignment of line 166
register_reply(s, c) ==
    [send_raw(s, c, OnlineUsersMsg(s.reg[c].users))
        EXCEPT !.user_id[c] = s.reg[c].uid, !.reg[c] = NoReg, !.pc[c] = "recv"]

\* _handle_chat as it would be if a directed message were written to every
\* session instead of the target's
handle_chat_all(s, message) == broadcast(s, message, JNull)

\* _handle_chat(message)
handle_chat(s, message) ==
    LET target == Get(message, Text.target, JStr(Text.public))
        sender == Get(message, Text.sender_id, JNull)
    IN  IF target = JStr(Text.public) THEN broadcast(s, message, sender)
        ELSE IF DictHas(s.clients, target)
             THEN send_raw(s, DictGet(s.clients, target, NoReg).socket, message)
             ELSE s

\* sock.close() at the end of the finally block
close(s, c) == [s EXCEPT !.conn[c] = "closed", !.pc[c] = "done"]

\* the finally block: up to the end of _handle_disconnect's critical section
\* for a handler that holds a user_id, to its end for one that holds none
finally(s, c) ==
    IF Truthy(s.user_id[c])
    THEN [s EXCEPT !.clients = DictDel(@, s.user_id[c]), !.pc[c] = "disc_bcast"]
    ELSE close(s, c)

\* _handle_disconnect, lines 266-269: user_left to everybody registered,
\* and the rest of the finally block
disconnect_notify(s, c) ==
    close(broadcast(s, UserLeftMsg(s.user_id[c]), JNull), c)

\* one turn of the read loop on frame f
read_loop(s, c, f) ==
    LET d        == wire.dec[f]
        message  == d.msg.val
        msg_type == Get(message, Text.type, JNull)
    IN
    IF d.length = 0 THEN finally(s, c)                       \* if not payload: break
    ELSE IF ~d.crcOk THEN s                                  \* continue
    ELSE IF ~d.msg.ok THEN s                                 \* continue
    ELSE IF message.t # "obj" THEN finally(s, c)             \* .get raises
    ELSE IF msg_type = JStr(Text.register) THEN
        IF Hashable(Get(message, Text.user_id, JNull))
        THEN handle_register(s, c, message)
        ELSE finally(s, c)                                   \* TypeError
    ELSE IF msg_type = JStr(Text.chat_message) THEN
        IF Hashable(Get(message, Text.target, JStr(Text.public)))
        THEN [handle_chat(s, message) EXCEPT !.msg_count = @ + 1]
        ELSE finally(s, c)                                   \* TypeError
    ELSE IF msg_type = JStr(Text.ai_analysis_request) THEN
        IF Truthy(s.user_id[c]) THEN [s EXCEPT !.ai_req_count = @ + 1] ELSE s
    ELSE IF msg_type = JStr(Text.ping) THEN send_raw(s, c, PongMsg)
    ELSE IF msg_type = JStr(Text.typing_status) THEN broadcast(s, message, s.user_id[c])
    ELSE s

(***************************************************************************)
(* The end-to-end scenario of the specification, followed by scen:         *)
(*   A registers as "a", then B registers as "b", then A sends             *)
(*   chat_message{target: public, content: hi}, then A disconnects,        *)
(* each event arriving when no handler is in the middle of an earlier one. *)
(***************************************************************************)
Script ==
    << [c |-> "A", op |-> "frame", f |-> "RegA"],
       [c |-> "B", op |-> "frame", f |-> "RegB"],
       [c |-> "A", op |-> "frame", f |-> "ChatHi"],
       [c |-> "A", op |-> "close", f |-> ""] >>

Quiet == \A c \in Conns : pc[c] \in {"recv", "done"}

ScenAfter(event) ==
    IF scen >= 0 /\ scen < Len(Script) /\ Quiet /\ event = Script[scen + 1]
    THEN scen + 1 ELSE -1

(***************************************************************************)
(* The server's steps.                                                     *)
(***************************************************************************)
ServerInit ==
    /\ clients = <<>>
    /\ conn = [c \in Conns |-> "open"]
    /\ pc = [c \in Conns |-> "recv"]
    /\ user_id = [c \in Conns |-> JNull]
    /\ reg = [c \in Conns |-> NoReg]
    /\ outbox = [c \in Conns |-> <<>>]
    /\ msg_count = 0
    /\ ai_req_count = 0
    /\ recvd = 0
    /\ scen = 0
    /\ last = [c |-> "", f |-> ""]
    /\ wire = WireTable(ServerFrames)
    /\ CodecOff
    /\ BreakerOff
    /\ LaterOff

\* the handler of c reads frame f and handles it
Recv(c, n) ==
    /\ pc[c] = "recv"
    /\ conn[c] = "open"
    /\ recvd < MaxRecv
    /\ recvd' = recvd + 1
    /\ scen' = ScenAfter([c |-> c, op |-> "frame", f |-> n])
    /\ last' = [c |-> c, f |-> n]
    /\ Becomes(read_loop(Server, c, wire.frames[n]))
    /\ UNCHANGED <<wire, codecVars, breakerVars, laterVars>>

\* the peer of c closes its end, the handler of c waiting for a frame
PeerClose(c) ==
    /\ conn[c] = "open"
    /\ pc[c] = "recv"
    /\ conn' = [conn EXCEPT ![c] = "peer_closed"]
    /\ scen' = ScenAfter([c |-> c, op |-> "close", f |-> ""])
    /\ UNCHANGED <<clients, pc, user_id, reg, outbox, msg_count, ai_req_count, recvd,
                   last, wire, codecVars, breakerVars, laterVars>>

\* _recv_exact returns None: break
RecvEof(c) ==
    /\ pc[c] = "recv"
    /\ conn[c] = "peer_closed"
    /\ Becomes(finally(Server, c))
    /\ UNCHANGED <<recvd, scen, last, wire, codecVars, breakerVars, laterVars>>

RegisterNotify(c) ==
    /\ pc[c] = "reg_bcast"
    /\ Becomes(register_notify(Server, c))
    /\ UNCHANGED <<recvd, scen, last, wire, codecVars, breakerVars, laterVars>>

RegisterCollect(c) ==
    /\ pc[c] = "reg_users"
    /\ Becomes(register_collect(Server, c))
    /\ UNCHANGED <<recvd, scen, last, wire, codecVars, breakerVars, laterVars>>

RegisterReply(c) ==
    /\ pc[c] = "reg_send"
    /\ Becomes(register_reply(Server, c))
    /\ UNCHANGED <<recvd, scen, last, wire, codecVars, breakerVars, laterVars>>

DisconnectNotify(c) ==
    /\ pc[c] = "disc_bcast"
    /\ Becomes(disconnect_notify(Server, c))
    /\ UNCHANGED <<recvd, scen, last, wire, codecVars, breakerVars, laterVars>>

ServerNext ==
    \E c \in Conns :
        \/ \E n \in DOMAIN wire.frames : Recv(c, n)
        \/ PeerClose(c)
        \/ RecvEof(c)
        \/ RegisterNotify(c)
        \/ RegisterCollect(c)
        \/ RegisterReply(c)
        \/ DisconnectNotify(c)

SpecServer == ServerInit /\ [][ServerNext]_vars

(***************************************************************************)
(* The same server and connections with other clients: in SpecRouting they *)
(* only register, once without user_id; in SpecGate they send every kind   *)
(* of envelope the read loop dispatches on, the chat message for user "b". *)
(***************************************************************************)
RoutingFrames == {"RegA", "RegB", "RegNoId"}

GateFrames == {"RegA", "RegB", "ChatToB", "Typing", "AiReq", "Ping"}

\* PetChatServer started, its clients drawing their frames from names
ServerInitWith(names) ==
    /\ clients = <<>>
    /\ conn = [c \in Conns |-> "open"]
    /\ pc = [c \in Conns |-> "recv"]
    /\ user_id = [c \in Conns |-> JNull]
    /\ reg = [c \in Conns |-> NoReg]
    /\ outbox = [c \in Conns |-> <<>>]
    /\ msg_count = 0
    /\ ai_req_count = 0
    /\ recvd = 0
    /\ scen = -1
    /\ last = [c |-> "", f |-> ""]
    /\ wire = WireTable(names)
    /\ CodecOff
    /\ BreakerOff
    /\ LaterOff

RoutingInit == ServerInitWith(RoutingFrames)

GateInit == ServerInitWith(GateFrames)

SpecRouting == RoutingInit /\ [][ServerNext]_vars

SpecGate == GateInit /\ [][ServerNext]_vars

(***************************************************************************)
(* core/providers/retry.py: CircuitBreaker.                                *)
(*                                                                         *)
(* Every method runs under self._lock, so a call is one step.  The clock   *)
(* is time.monotonic() in whole ticks.  The callers are the threads that   *)
(* share the breaker; each may call any method at any time.                *)
(***************************************************************************)
Callers == {"p", "q"}

MaxThreshold == 2   \* failure_threshold and half_open_success_threshold: 1..MaxThreshold
MaxTimeout == 2     \* recovery_timeout: 1..MaxTimeout
MaxTime == 3        \* the clock stops at MaxTime

Breaker ==
    [state |-> state, failure_count |-> failure_count, success_count |-> success_count,
     last_failure_time |-> last_failure_time]

\* allow_request with > where the code has >=
allow_request_late(b, t) ==
    IF b.state = "open"
    THEN IF t - b.last_failure_time > recovery_timeout
         THEN [b |-> [b EXCEPT !.state = "half_open", !.success_count = 0],
               result |-> TRUE]
         ELSE [b |-> b, result |-> FALSE]
    ELSE [b |-> b, result |-> TRUE]

\* allow_request(), the clock at t: the breaker after it and what it returns
allow_request(b, t) ==
    IF b.state = "open"
    THEN IF t - b.last_failure_time >= recovery_timeout
         THEN [b |-> [b EXCEPT !.state = "half_open", !.success_count = 0],
               result |-> TRUE]
         ELSE [b |-> b, result |-> FALSE]
    ELSE [b |-> b, result |-> TRUE]

\* record_success()
record_success(b) ==
    LET b1 == [b EXCEPT !.failure_count = 0] IN
    IF b1.state = "half_open"
    THEN LET b2 == [b1 EXCEPT !.success_count = @ + 1] IN
         IF b2.success_count >= half_open_success_threshold
         THEN [b2 EXCEPT !.state = "closed", !.success_count = 0]
         ELSE b2
    ELSE [b1 EXCEPT !.state = "closed"]

\* record_failure with > where the code has >=
record_failure_late(b, t) ==
    LET b1 == [b EXCEPT !.failure_count = @ + 1, !.last_failure_time = t] IN
    IF b1.failure_count > failure_threshold
    THEN [b1 EXCEPT !.state = "open"]
    ELSE b1

\* record_failure(), the clock at t
record_failure(b, t) ==
    LET b1 == [b EXCEPT !.failure_count = @ + 1, !.last_failure_time = t] IN
    IF b1.failure_count >= failure_threshold
    THEN [b1 EXCEPT !.state = "open"]
    ELSE b1

BreakerBecomes(b) ==
    /\ state' = b.state
    /\ failure_count' = b.failure_count
    /\ success_count' = b.success_count
    /\ last_failure_time' = b.last_failure_time

\* CircuitBreaker(failure_threshold, recovery_timeout, half_open_success_threshold)
BreakerInit ==
    /\ failure_threshold \in 1..MaxThreshold
    /\ recovery_timeout \in 1..MaxTimeout
    /\ half_open_success_threshold \in 1..MaxThreshold
    /\ state = "closed"
    /\ failure_count = 0
    /\ success_count = 0
    /\ last_failure_time = 0
    /\ now = 0
    /\ streak = 0
    /\ trial = 0
    /\ probe = "none"
    /\ call = [op |-> "none", by |-> "none", at |-> 0, from |-> "closed", result |-> TRUE]
    /\ CodecOff
    /\ ServerOff
    /\ LaterOff

BreakerParams == <<failure_threshold, recovery_timeout, half_open_success_threshold>>

\* caller c calls allow_request()
AllowRequest(c) ==
    LET r == allow_request(Breaker, now) IN
    /\ BreakerBecomes(r.b)
    /\ call' = [op |-> "allow", by |-> c, at |-> now, from |-> state, result |-> r.result]
    /\ trial' = IF state = "open" /\ r.b.state = "half_open" THEN 0 ELSE trial
    /\ probe' = IF state = "open" /\ r.b.state = "half_open" THEN c ELSE probe
    /\ UNCHANGED <<BreakerParams, now, streak, codecVars, serverVars, laterVars>>

\* caller c calls record_success()
RecordSuccess(c) ==
    /\ BreakerBecomes(record_success(Breaker))
    /\ call' = [op |-> "success", by |-> c, at |-> now, from |-> state, result |-> TRUE]
    /\ streak' = 0
    /\ trial' = IF state = "half_open" /\ trial <= MaxThreshold THEN trial + 1 ELSE trial
    /\ probe' = IF probe = c THEN "none" ELSE probe
    /\ UNCHANGED <<BreakerParams, now, codecVars, serverVars, laterVars>>

\* caller c calls record_failure(); the model stops counting a run of failures
\* one past MaxThreshold
RecordFailure(c) ==
    /\ streak <= MaxThreshold
    /\ BreakerBecomes(record_failure(Breaker, now))
    /\ call' = [op |-> "failure", by |-> c, at |-> now, from |-> state, result |-> TRUE]
    /\ streak' = streak + 1
    /\ probe' = IF probe = c THEN "none" ELSE probe
    /\ UNCHANGED <<BreakerParams, now, trial, codecVars, serverVars, laterVars>>

\* time passes
Tick ==
    /\ now < MaxTime
    /\ now' = now + 1
    /\ UNCHANGED <<BreakerParams, state, failure_count, success_count, last_failure_time,
                   streak, trial, probe, call, codecVars, serverVars, laterVars>>

BreakerNext ==
    \/ \E c \in Callers : AllowRequest(c) \/ RecordSuccess(c) \/ RecordFailure(c)
    \/ Tick

SpecBreaker == BreakerInit /\ [][BreakerNext]_vars

(***************************************************************************)
(* core/providers/retry.py: retry_with_backoff.                            *)
(*                                                                         *)
(* One decorated function and one call of its wrapper.  What func does at  *)
(* an invocation is free: it returns a value or raises an exception of     *)
(* some class.  An exception is [cls, at]: its class and the invocation    *)
(* that raised it, which tells the exception objects apart.  Delays are    *)
(* whole numbers.                                                          *)
(***************************************************************************)
MaxAttempts == 3    \* max_attempts: 0..MaxAttempts
MaxDelay == 4       \* max_delay: 1..MaxDelay

\* the classes func raises and their base classes, each class included
Bases(cls) ==
    CASE cls = "ConnectionError"   -> {"ConnectionError", "OSError", "Exception",
                                       "BaseException"}
      [] cls = "ValueError"        -> {"ValueError", "Exception", "BaseException"}
      [] cls = "TypeError"         -> {"TypeError", "Exception", "BaseException"}
      [] cls = "KeyboardInterrupt" -> {"KeyboardInterrupt", "BaseException"}
      [] cls = "AttributeError"    -> {"AttributeError", "Exception", "BaseException"}
      [] cls = "UnicodeEncodeError" -> {"UnicodeEncodeError", "UnicodeError", "ValueError",
                                       "Exception", "BaseException"}
      [] cls = "JSONDecodeError"   -> {"JSONDecodeError", "ValueError", "Exception",
                                       "BaseException"}
      [] cls \in {"requests.Timeout", "requests.ConnectionError", "requests.HTTPError"}
                                   -> {cls, "requests.RequestException", "OSError",
                                       "Exception", "BaseException"}

Raised == {"ConnectionError", "ValueError", "TypeError", "KeyboardInterrupt"}

\* what one invocation of func can do
Outcomes ==
    {[kind |-> "return", val |-> x, cls |-> "none"] : x \in {"success", "None"}}
    \cup {[kind |-> "raise", val |-> "None", cls |-> c] : c \in Raised}

\* an except clause that catches everything
IsRetryable_all(cls) == TRUE

\* except retryable_exceptions as e: does the clause catch an exception of cls
IsRetryable(cls) == Bases(cls) \cap retryable_exceptions # {}

RECURSIVE Pow(_, _)
Pow(b, n) == IF n = 0 THEN 1 ELSE b * Pow(b, n - 1)

Min(a, b) == IF a <= b THEN a ELSE b

\* delay = min(max_delay, base_delay * (exponential_base ** (attempt - 1)))
backoff_delay(att) == Min(max_delay, base_delay * Pow(exponential_base, att - 1))

NoResult == [kind |-> "none", val |-> "None", err |-> <<>>, last_exception |-> <<>>]

\* the loop body that gives up one attempt early
on_attempt_early(att, out) ==
    LET e == [cls |-> out.cls, at |-> att] IN
    IF out.kind = "return"
    THEN [pc |-> "done", last |-> last_exception, delay |-> 0,
          result |-> [NoResult EXCEPT !.kind = "returned", !.val = out.val]]
    ELSE IF ~IsRetryable(out.cls)
    THEN [pc |-> "done", last |-> last_exception, delay |-> 0,
          result |-> [NoResult EXCEPT !.kind = "raised", !.err = e]]
    ELSE IF att >= max_attempts - 1
    THEN [pc |-> "done", last |-> e, delay |-> 0,
          result |-> [NoResult EXCEPT !.kind = "RetryError", !.last_exception = e]]
    ELSE [pc |-> "sleep", last |-> e, delay |-> backoff_delay(att), result |-> NoResult]

\* the loop body that goes on after func has returned
on_attempt_again(att, out) ==
    LET e == [cls |-> out.cls, at |-> att] IN
    IF out.kind = "return" /\ att = max_attempts
    THEN [pc |-> "done", last |-> last_exception, delay |-> 0,
          result |-> [NoResult EXCEPT !.kind = "returned", !.val = out.val]]
    ELSE IF out.kind = "return"
    THEN [pc |-> "sleep", last |-> last_exception, delay |-> 0, result |-> NoResult]
    ELSE IF ~IsRetryable(out.cls)
    THEN [pc |-> "done", last |-> last_exception, delay |-> 0,
          result |-> [NoResult EXCEPT !.kind = "raised", !.err = e]]
    ELSE IF att = max_attempts
    THEN [pc |-> "done", last |-> e, delay |-> 0,
          result |-> [NoResult EXCEPT !.kind = "RetryError", !.last_exception = e]]
    ELSE [pc |-> "sleep", last |-> e, delay |-> backoff_delay(att), result |-> NoResult]

\* the body of the for loop at attempt att, func doing out: where the wrapper
\* goes, its last_exception, the delay it is about to sleep and how it ends
on_attempt(att, out) ==
    LET e == [cls |-> out.cls, at |-> att] IN
    IF out.kind = "return"
    THEN [pc |-> "done", last |-> last_exception, delay |-> 0,
          result |-> [NoResult EXCEPT !.kind = "returned", !.val = out.val]]
    ELSE IF ~IsRetryable(out.cls)
    THEN [pc |-> "done", last |-> last_exception, delay |-> 0,
          result |-> [NoResult EXCEPT !.kind = "raised", !.err = e]]
    ELSE IF att = max_attempts
    THEN [pc |-> "done", last |-> e, delay |-> 0,
          result |-> [NoResult EXCEPT !.kind = "RetryError", !.last_exception = e]]
    ELSE [pc |-> "sleep", last |-> e, delay |-> backoff_delay(att), result |-> NoResult]

RetryParams ==
    <<max_attempts, base_delay, max_delay, exponential_base, retryable_exceptions>>

\* retry_with_backoff(max_attempts, base_delay, max_delay, exponential_base,
\* retryable_exceptions)(func)
RetryInit ==
    /\ max_attempts \in 0..MaxAttempts
    /\ base_delay \in 1..2
    /\ max_delay \in 1..MaxDelay
    /\ exponential_base \in 1..2
    /\ retryable_exceptions \in {{"Exception"}, {"ValueError"}, {"OSError", "ValueError"}}
    /\ rPc = "idle"
    /\ attempt = 0
    /\ last_exception = <<>>
    /\ delay = 0
    /\ calls = <<>>
    /\ sleeps = <<>>
    /\ rResult = NoResult
    /\ OnlyRetry

\* wrapper(*args, **kwargs) up to the first attempt: last_exception = None and
\* the for loop starts, or ends at once and the wrapper returns None
Wrapper ==
    /\ rPc = "idle"
    /\ IF max_attempts >= 1
       THEN rPc' = "try" /\ attempt' = 1 /\ rResult' = rResult
       ELSE /\ rPc' = "done"
            /\ attempt' = attempt
            /\ rResult' = [NoResult EXCEPT !.kind = "returned"]
    /\ UNCHANGED <<RetryParams, last_exception, delay, calls, sleeps>>
    /\ UNCHANGED notRetry

\* one pass through the try statement: func is invoked and does out
Invoke(out) ==
    /\ rPc = "try"
    /\ LET r == on_attempt(attempt, out) IN
         /\ rPc' = r.pc
         /\ last_exception' = r.last
         /\ delay' = r.delay
         /\ rResult' = r.result
    /\ calls' = Append(calls, out)
    /\ UNCHANGED <<RetryParams, attempt, sleeps>>
    /\ UNCHANGED notRetry

\* time.sleep(delay) and the next round of the loop
Sleep ==
    /\ rPc = "sleep"
    /\ sleeps' = Append(sleeps, delay)
    /\ attempt' = attempt + 1
    /\ rPc' = "try"
    /\ UNCHANGED <<RetryParams, last_exception, delay, calls, rResult>>
    /\ UNCHANGED notRetry

RetryNext ==
    \/ Wrapper
    \/ \E out \in Outcomes : Invoke(out)
    \/ Sleep

SpecRetry == RetryInit /\ [][RetryNext]_vars

(***************************************************************************)
(* core/ai_service.py: AIService.analyze_emotion.                          *)
(*                                                                         *)
(* The call is drawn by what reaches its own code: how many messages it is *)
(* given, whether _make_request returns a text, and the value _extract_json*)
(* makes of that text.  A dict is a function from its keys; a weight v /   *)
(* total of the result is the pair <<v, total>>.                           *)
(***************************************************************************)
MaxWeight == 2      \* the numbers among the backend's weights: -1..MaxWeight

\* the keys of default_emotions
EmotionLabels == {"neutral", "happy", "tense", "negative"}

\* the keys and the values the backend's JSON object may have
BackendLabels == {"neutral", "happy", "negative", "angry"}

BackendValues ==
    {JInt(n) : n \in -1..MaxWeight}
    \cup {JBool(TRUE), JNull, JStr(<<50>>), JStr(<<120>>)}

BackendDicts ==
    UNION {[ks -> BackendValues] : ks \in SUBSET BackendLabels}

\* float(v): the number, or the exception float raises
to_float(x) ==
    CASE x.t = "int"  -> [ok |-> TRUE, val |-> x.v, cls |-> "none"]
      [] x.t = "bool" -> [ok |-> TRUE, val |-> IF x.v THEN 1 ELSE 0, cls |-> "none"]
      [] x.t = "str"  ->
            IF x.v # <<>> /\ DigitsEnd(x.v, 1) = Len(x.v) + 1
            THEN [ok |-> TRUE, val |-> IntVal(x.v, 1, Len(x.v) + 1, 0), cls |-> "none"]
            ELSE [ok |-> FALSE, val |-> 0, cls |-> "ValueError"]
      [] OTHER        -> [ok |-> FALSE, val |-> 0, cls |-> "TypeError"]

NeutralOnly == [kind |-> "returned", val |-> [k \in {"neutral"} |-> <<1, 1>>],
                cls |-> "none"]

\* lines 250-257: default_emotions updated from the dict d and normalised;
\* the set of ways it can end (the dict's order decides which exception)
normalise(d) ==
    LET known == DOMAIN d \cap EmotionLabels
        bad   == {k \in known : ~to_float(d[k]).ok}
        w     == [k \in EmotionLabels |-> IF k \in known THEN to_float(d[k]).val ELSE 0]
        total == w["neutral"] + w["happy"] + w["tense"] + w["negative"]
    IN  IF bad # {}
        THEN {[kind |-> "raised", val |-> <<>>, cls |-> to_float(d[k]).cls] : k \in bad}
        ELSE IF total > 0
        THEN {[kind |-> "returned", val |-> [k \in EmotionLabels |-> <<w[k], total>>],
               cls |-> "none"]}
        ELSE {NeutralOnly}

\* analyze_emotion(recent_messages): the set of ways it can end
analyze_emotion(n, text, data) ==
    IF n = 0 THEN {NeutralOnly}
    ELSE IF text = "None" THEN {NeutralOnly}
    ELSE IF data.t = "dict" /\ DOMAIN data.v # {} THEN normalise(data.v)
    ELSE {NeutralOnly}

\* a call of analyze_emotion with its collaborators' answers
EmotionInit ==
    /\ recent_messages \in 0..1
    /\ content \in {"None", "text"}
    /\ emotion_data \in {JNull, JArr(<<JInt(1)>>)}
                        \cup {[t |-> "dict", v |-> d] : d \in BackendDicts}
    /\ (recent_messages = 0 \/ content = "None") => emotion_data = JNull
    /\ ePc = "new"
    /\ eResult = [kind |-> "none", val |-> <<>>, cls |-> "none"]
    /\ OnlyEmotion

AnalyzeEmotion ==
    /\ ePc = "new"
    /\ eResult' \in analyze_emotion(recent_messages, content, emotion_data)
    /\ ePc' = "done"
    /\ UNCHANGED <<recent_messages, content, emotion_data>>
    /\ UNCHANGED notEmotion

EmotionNext == AnalyzeEmotion

SpecEmotion == EmotionInit /\ [][EmotionNext]_vars

(***************************************************************************)
(* relay_server.py: RelayServer.                                           *)
(*                                                                         *)
(* Three accepted connections, each with its _handle_client thread, and    *)
(* the monitor thread.  A handler's pass through its loop on one frame is  *)
(* one step.  A dict is a function from its keys; None and the empty       *)
(* string are both <<>>.  What is written to a connection is kept as       *)
(* [src, kind, raw, info]: a forwarded frame with the connection it came   *)
(* from and its bytes, or an envelope of the relay with its fields.        *)
(***************************************************************************)
RelayConns == {"A", "B", "C"}

MaxRelayRecv == 4   \* frames read in a run
TickSeconds == 70   \* the clock moves in steps of TickSeconds
MaxRelayClock == 70 \* and stops at MaxRelayClock

heartbeat_timeout == 60

RelayText ==
    [ relay_register  |-> <<114, 101, 108, 97, 121, 95, 114, 101, 103, 105, 115, 116, 101, 114>>,
      room_id         |-> <<114, 111, 111, 109, 95, 105, 100>>,
      role            |-> <<114, 111, 108, 101>>,
      host            |-> <<104, 111, 115, 116>>,
      guest           |-> <<103, 117, 101, 115, 116>>,
      heartbeat       |-> <<104, 101, 97, 114, 116, 98, 101, 97, 116>>,
      message         |-> <<109, 101, 115, 115, 97, 103, 101>>,
      default         |-> <<100, 101, 102, 97, 117, 108, 116>>,
      r1              |-> <<114, 49>>,
      r2              |-> <<114, 50>>,
      boss            |-> <<98, 111, 115, 115>> ]

RelayRegister(room_id, role) ==
    JObj(<< <<Text.type, JStr(RelayText.relay_register)>>,
            <<RelayText.role, JStr(role)>>,
            <<RelayText.room_id, JStr(room_id)>> >>)

\* the envelopes the peers send in the runs of the relay specification
RelayEnvelopes ==
    [ Host1     |-> RelayRegister(RelayText.r1, RelayText.host),
      Guest1    |-> RelayRegister(RelayText.r1, RelayText.guest),
      Host2     |-> RelayRegister(RelayText.r2, RelayText.host),
      Boss      |-> RelayRegister(RelayText.r1, RelayText.boss),
      NoRoom    |-> JObj(<< <<Text.type, JStr(RelayText.relay_register)>> >>),
      Heartbeat |-> JObj(<< <<Text.type, JStr(RelayText.heartbeat)>> >>),
      Message   |-> JObj(<< <<Text.type, JStr(RelayText.message)>>,
                            <<Text.content, JStr(Word.hi)>> >>) ]

\* len(data).to_bytes(4, 'big') and data, as the peers' _send_packet writes them
RelayFrame(payload) == Let(payload, LAMBDA p : U32(Len(p)) \o p)

\* the frames of the peers, by name
RelayFrames ==
    Let([n \in DOMAIN RelayEnvelopes |->
            RelayFrame(Utf8Encode(json_dumps(RelayEnvelopes[n])).bytes)] @@ <<>>,
        LAMBDA good :
        good @@
        [ \* a payload cut short
          BadJson   |-> RelayFrame(SubSeq(good.Heartbeat, 5, 12)),
          \* JSON that is no object
          NonObject |-> RelayFrame(<<91, 93>>),
          \* a header that announces no payload
          ZeroLen   |-> RelayFrame(<<>>) ])

\* the frames the runs of the relay specification draw from
RelayFrameNames ==
    {"Host1", "Guest1", "Host2", "Heartbeat", "Message", "BadJson", "NonObject"}

\* lines 48-57 on one frame: length_data, length, payload and json.loads
RelayRead(f) ==
    Let(SubSeq(f, 1, 4), LAMBDA length_data :
        Let(FromU32(length_data), LAMBDA length :
            Let(SubSeq(f, 5, 4 + length), LAMBDA payload :
                [raw |-> length_data \o payload, length |-> length,
                 msg |-> loads_payload(payload)])))

\* the read applied once to every frame of the run
RelayWire(names) ==
    Let([n \in names |-> RelayFrames[n]] @@ <<>>, LAMBDA frames :
        [n \in names |-> RelayRead(frames[n])] @@ <<>>)

\* d[k] = v and d.pop(k, None) on a dict
FnSet(d, k, x) == [y \in DOMAIN d \cup {k} |-> IF y = k THEN x ELSE d[y]]

FnDel(d, k) == [y \in DOMAIN d \ {k} |-> d[y]]

\* str(x) of a JSON string, integer or true
py_str(x) ==
    CASE x.t = "str"  -> x.v
      [] x.t = "int"  -> IntRepr(x.v)
      [] x.t = "bool" -> IF x.v THEN <<84, 114, 117, 101>> ELSE <<70, 97, 108, 115, 101>>

\* str(message.get(key) or default)
StrOr(message, key, default) ==
    Let(Get(message, key, JNull), LAMBDA x :
        IF Truthy(x) THEN py_str(x) ELSE default)

IsStr(x, s) == x.t = "str" /\ x.v = s

\* the relay's state as one value, for the methods to work on
Relay ==
    [rooms |-> rooms, clients |-> rclients, socks |-> rSock, hpc |-> hPc,
     room_id |-> hRoom, role |-> hRole, out |-> rOut]

RelayBecomes(s) ==
    \E x \in {s} :
        /\ rooms' = x.rooms
        /\ rclients' = x.clients
        /\ rSock' = x.socks
        /\ hPc' = x.hpc
        /\ hRoom' = x.room_id
        /\ hRole' = x.role
        /\ rOut' = x.out

\* conn.sendall with its OSError caught: the data reaches an open connection
relay_sendall(R, c, item) ==
    IF R.socks[c] = "open" THEN [R EXCEPT !.out[c] = Append(@, item)] ELSE R

\* _send_error(conn, code, message)
send_error(R, c, code) ==
    relay_sendall(R, c, [src |-> "relay", kind |-> "relay_error", raw |-> <<>>,
                         info |-> <<code>>])

\* _send_ack(conn, room_id, role)
send_ack(R, c, room_id, role) ==
    LET active_in_room == IF room_id \in DOMAIN R.rooms
                          THEN Cardinality(DOMAIN R.rooms[room_id]) ELSE 0
        active_total   == Cardinality(DOMAIN R.clients)
    IN  relay_sendall(R, c, [src |-> "relay", kind |-> "relay_ack", raw |-> <<>>,
                             info |-> <<room_id, role, active_in_room, active_total>>])

\* _register_client that hands the slot to the newcomer
register_client_takeover(R, room_id, role, c, t) ==
    LET room == IF room_id \in DOMAIN R.rooms THEN R.rooms[room_id] ELSE <<>>
    IN  [ok |-> TRUE,
         R  |-> [R EXCEPT !.rooms = FnSet(R.rooms, room_id, FnSet(room, role, c)),
                          !.clients = FnSet(R.clients, c,
                                            [room_id |-> room_id, role |-> role,
                                             last_seen |-> t])]]

\* _register_client(room_id, role, conn, addr, now): ok and the relay after it
register_client(R, room_id, role, c, t) ==
    LET room     == IF room_id \in DOMAIN R.rooms /\ DOMAIN R.rooms[room_id] # {}
                    THEN R.rooms[room_id] ELSE <<>>
        existing == IF role \in DOMAIN room THEN room[role] ELSE "none"
    IN  IF existing # "none" /\ existing # c
        THEN [ok |-> FALSE, R |-> R]
        ELSE [ok |-> TRUE,
              R  |-> [R EXCEPT !.rooms = FnSet(R.rooms, room_id, FnSet(room, role, c)),
                               !.clients = FnSet(R.clients, c,
                                                 [room_id |-> room_id, role |-> role,
                                                  last_seen |-> t])]]

\* _update_last_seen(conn, now)
update_last_seen(R, c, t) ==
    IF c \in DOMAIN R.clients THEN [R EXCEPT !.clients[c].last_seen = t] ELSE R

\* room.pop(role, None) whoever holds the slot
free_slot_unchecked(rms, rid, rrole, c) ==
    IF rid \in DOMAIN rms /\ rrole \in DOMAIN rms[rid]
    THEN LET room == FnDel(rms[rid], rrole) IN
         IF DOMAIN room = {} THEN FnDel(rms, rid) ELSE FnSet(rms, rid, room)
    ELSE rms

\* room.pop(role, None) when room.get(role) is conn, and the room with it
\* when that leaves it empty
free_slot(rms, rid, rrole, c) ==
    IF rid \in DOMAIN rms /\ rrole \in DOMAIN rms[rid] /\ rms[rid][rrole] = c
    THEN LET room == FnDel(rms[rid], rrole) IN
         IF DOMAIN room = {} THEN FnDel(rms, rid) ELSE FnSet(rms, rid, room)
    ELSE rms

\* _cleanup_connection(conn, room_id, role, addr)
cleanup_connection(R, c, room_id, role) ==
    LET R1 == IF c \in DOMAIN R.clients
              THEN LET meta == R.clients[c] IN
                   [R EXCEPT !.clients = FnDel(R.clients, c),
                             !.rooms = free_slot(R.rooms, meta.room_id, meta.role, c)]
              ELSE IF room_id # <<>> /\ role # <<>>
              THEN [R EXCEPT !.rooms = free_slot(R.rooms, room_id, role, c)]
              ELSE R
    IN  [R1 EXCEPT !.socks[c] = "closed"]

\* the finally block of _handle_client: the handler's thread ends
relay_finally(R, c) ==
    [cleanup_connection(R, c, R.room_id[c], R.role[c]) EXCEPT !.hpc[c] = "done"]

\* _get_target(room_id, role): the connection or "none"
get_target(R, room_id, role) ==
    IF room_id = <<>> \/ role = <<>> THEN "none"
    ELSE LET other_role == IF role = RelayText.host THEN RelayText.guest
                           ELSE RelayText.host
         IN  IF room_id \in DOMAIN R.rooms /\ other_role \in DOMAIN R.rooms[room_id]
             THEN R.rooms[room_id][other_role]
             ELSE "none"

\* lines 65-79: the relay_register branch
relay_register(R, c, message, t) ==
    LET room_id == StrOr(message, RelayText.room_id, RelayText.default)
        role    == StrOr(message, RelayText.role, RelayText.guest)
        R1      == [R EXCEPT !.room_id[c] = room_id, !.role[c] = role]
    IN  IF role \notin {RelayText.host, RelayText.guest}
        THEN relay_finally(send_error(R1, c, "INVALID_ROLE"), c)
        ELSE IF room_id = <<>>
        THEN relay_finally(send_error(R1, c, "INVALID_ROOM"), c)
        ELSE LET got == register_client(R1, room_id, role, c, t) IN
             IF ~got.ok
             THEN relay_finally(send_error(R1, c, "REGISTER_FAILED"), c)
             ELSE send_ack(got.R, c, room_id, role)

\* lines 81-100: any other envelope
relay_forward(R, c, w, t) ==
    LET R1     == update_last_seen(R, c, t)
        target == get_target(R1, R1.room_id[c], R1.role[c])
    IN  IF target # "none"
        THEN relay_sendall(R1, target, [src |-> c, kind |-> "frame", raw |-> w.raw,
                                        info |-> <<>>])
        ELSE R1

\* one pass of the loop of _handle_client on the frame read as w
handle_client(R, c, w, t) ==
    IF w.length = 0 THEN relay_finally(R, c)
    ELSE IF ~w.msg.ok THEN relay_finally(send_error(R, c, "INVALID_JSON"), c)
    ELSE IF w.msg.val.t # "obj" THEN relay_finally(R, c)
    ELSE IF IsStr(Get(w.msg.val, Text.type, JNull), RelayText.relay_register)
    THEN relay_register(R, c, w.msg.val, t)
    ELSE relay_forward(R, c, w, t)

\* RelayServer() with three connections accepted
RelayInit ==
    /\ rooms = <<>>
    /\ rclients = <<>>
    /\ rSock = [c \in RelayConns |-> "open"]
    /\ hPc = [c \in RelayConns |-> "recv"]
    /\ hRoom = [c \in RelayConns |-> <<>>]
    /\ hRole = [c \in RelayConns |-> <<>>]
    /\ rOut = [c \in RelayConns |-> <<>>]
    /\ rNow = 0
    /\ rRecvd = 0
    /\ rLast = [c |-> "", f |-> ""]
    /\ rWire = RelayWire(RelayFrameNames)
    /\ OnlyRelay

\* the peer of c has sent frame n and c's handler reads and handles it
RelayRecv(c, n) ==
    /\ hPc[c] = "recv"
    /\ rSock[c] = "open"
    /\ rRecvd < MaxRelayRecv
    /\ RelayBecomes(handle_client(Relay, c, rWire[n], rNow))
    /\ rRecvd' = rRecvd + 1
    /\ rLast' = [c |-> c, f |-> n]
    /\ UNCHANGED <<rNow, rWire>>
    /\ UNCHANGED notRelay

\* _recv_all returns None and the loop breaks: the peer of c has closed its
\* end, or the monitor has closed the socket under the handler
RelayEof(c) ==
    /\ hPc[c] = "recv"
    /\ RelayBecomes(relay_finally(Relay, c))
    /\ UNCHANGED <<rNow, rRecvd, rLast, rWire>>
    /\ UNCHANGED notRelay

\* _monitor_loop on one stale connection
Monitor(c) ==
    /\ c \in DOMAIN rclients
    /\ rNow - rclients[c].last_seen > heartbeat_timeout
    /\ RelayBecomes(cleanup_connection(Relay, c, rclients[c].room_id, rclients[c].role))
    /\ UNCHANGED <<rNow, rRecvd, rLast, rWire>>
    /\ UNCHANGED notRelay

\* time passes
RelayTick ==
    /\ rNow < MaxRelayClock
    /\ rNow' = rNow + TickSeconds
    /\ UNCHANGED <<rooms, rclients, rSock, hPc, hRoom, hRole, rOut, rRecvd, rLast, rWire>>
    /\ UNCHANGED notRelay

RelayNext ==
    \/ \E c \in RelayConns, n \in RelayFrameNames : RelayRecv(c, n)
    \/ \E c \in RelayConns : RelayEof(c) \/ Monitor(c)
    \/ RelayTick

SpecRelay == RelayInit /\ [][RelayNext]_vars

(***************************************************************************)
(* RelayServer (relay_server.py): the monitor thread beside the handlers   *)
(*                                                                         *)
(* _monitor_loop collects the stale connections under the lock, releases   *)
(* the lock and cleans them up one by one, so handlers run between its     *)
(* collecting and its cleaning up.  The list is kept as a set: the         *)
(* clean-ups are taken in any order.                                       *)
(***************************************************************************)
MonitorConns == {"A", "B"}
MaxMonitorRecv == 4   \* frames read in a run

MonitorFrameNames == {"Host1", "Guest1", "Heartbeat"}

\* lines 209-213: the (conn, meta) pairs whose last_seen is older than the timeout
stale_connections(R, t) ==
    {[c |-> c, room_id |-> R.clients[c].room_id, role |-> R.clients[c].role] :
        c \in {d \in DOMAIN R.clients : t - R.clients[d].last_seen > heartbeat_timeout}}

\* RelayServer() with two connections accepted and the monitor asleep
MonitorInit ==
    /\ rooms = <<>>
    /\ rclients = <<>>
    /\ rSock = [c \in MonitorConns |-> "open"]
    /\ hPc = [c \in MonitorConns |-> "recv"]
    /\ hRoom = [c \in MonitorConns |-> <<>>]
    /\ hRole = [c \in MonitorConns |-> <<>>]
    /\ rOut = [c \in MonitorConns |-> <<>>]
    /\ rNow = 0
    /\ rRecvd = 0
    /\ rLast = [c |-> "", f |-> ""]
    /\ rWire = RelayWire(MonitorFrameNames)
    /\ mStale = {}
    /\ OnlyMon

\* the peer of c has sent frame n and c's handler reads and handles it
MonitorRecv(c, n) ==
    /\ hPc[c] = "recv"
    /\ rSock[c] = "open"
    /\ rRecvd < MaxMonitorRecv
    /\ RelayBecomes(handle_client(Relay, c, rWire[n], rNow))
    /\ rRecvd' = rRecvd + 1
    /\ rLast' = [c |-> c, f |-> n]
    /\ UNCHANGED <<rNow, rWire, mStale>>
    /\ UNCHANGED notMon

\* _recv_all returns None and the loop breaks: the peer of c has closed its
\* end, or the monitor has closed the socket under the handler
MonitorEof(c) ==
    /\ hPc[c] = "recv"
    /\ RelayBecomes(relay_finally(Relay, c))
    /\ UNCHANGED <<rNow, rRecvd, rLast, rWire, mStale>>
    /\ UNCHANGED notMon

\* lines 207-213: the monitor wakes up and collects the stale connections
MonitorScan ==
    /\ mStale = {}
    /\ stale_connections(Relay, rNow) # {}
    /\ mStale' = stale_connections(Relay, rNow)
    /\ UNCHANGED relayVars
    /\ UNCHANGED notMon

\* lines 214-216: _cleanup_connection on one of the collected pairs
MonitorCleanup(x) ==
    /\ x \in mStale
    /\ RelayBecomes(cleanup_connection(Relay, x.c, x.room_id, x.role))
    /\ mStale' = mStale \ {x}
    /\ UNCHANGED <<rNow, rRecvd, rLast, rWire>>
    /\ UNCHANGED notMon

\* time passes
MonitorTick ==
    /\ rNow < MaxRelayClock
    /\ rNow' = rNow + TickSeconds
    /\ UNCHANGED <<rooms, rclients, rSock, hPc, hRoom, hRole, rOut, rRecvd, rLast, rWire,
                   mStale>>
    /\ UNCHANGED notMon

MonitorNext ==
    \/ \E c \in MonitorConns, n \in MonitorFrameNames : MonitorRecv(c, n)
    \/ \E c \in MonitorConns : MonitorEof(c)
    \/ MonitorScan
    \/ \E x \in mStale : MonitorCleanup(x)
    \/ MonitorTick

SpecMonitor == MonitorInit /\ [][MonitorNext]_vars

\* the monitor thread runs for as long as the relay does ("while True" with a
\* sleep of ten seconds): it keeps collecting and keeps cleaning up
SpecMonitorLive ==
    /\ SpecMonitor
    /\ WF_vars(MonitorScan)
    /\ WF_vars(\E x \in mStale : MonitorCleanup(x))

(***************************************************************************)
(* RelayServer (relay_server.py): what the handler threads write           *)
(*                                                                         *)
(* _send_raw writes a relay_ack or relay_error with two calls of sendall,  *)
(* the four bytes of the length and then the payload, and holds no lock;   *)
(* a handler forwards a peer's frame with one call, target.sendall(raw).   *)
(* One call of sendall is one step here.  In the output of a connection    *)
(* the length of a relay frame is an item of kind "length" and its payload *)
(* the item that send_ack or send_error makes; a forwarded frame is one    *)
(* item with its length in it.                                             *)
(***************************************************************************)
SendConns == {"A", "B"}
MaxSendRecv == 4   \* frames read in a run

SendFrameNames == {"Host1", "Guest1", "Message"}

NoPayload == [item |-> [src |-> "", kind |-> "", raw |-> <<>>, info |-> <<>>],
              ends |-> FALSE]

\* conn.sendall(len(data).to_bytes(4, "big")) for the payload in item
length_of(item) == [src |-> item.src, kind |-> "length", raw |-> <<>>, info |-> item.info]

\* RelayServer() with two connections accepted
SendInit ==
    /\ rooms = <<>>
    /\ rclients = <<>>
    /\ rSock = [c \in SendConns |-> "open"]
    /\ hPc = [c \in SendConns |-> "recv"]
    /\ hRoom = [c \in SendConns |-> <<>>]
    /\ hRole = [c \in SendConns |-> <<>>]
    /\ rOut = [c \in SendConns |-> <<>>]
    /\ rNow = 0
    /\ rRecvd = 0
    /\ rLast = [c |-> "", f |-> ""]
    /\ rWire = RelayWire(SendFrameNames)
    /\ wPend = [c \in SendConns |-> NoPayload]
    /\ OnlySend

\* one pass of the loop of _handle_client up to the first sendall of a
\* _send_raw to its own connection, or the whole pass if it writes no relay
\* frame.  R2 is the relay after the whole pass; when the pass answers with
\* relay_ack or relay_error, the registration and the locals are as in R2, the
\* output has the length only, and the payload and a break are still to come
handle_client_to_length(R, c, w, t) ==
    LET R2    == handle_client(R, c, w, t)
        wrote == /\ Len(R2.out[c]) > Len(R.out[c])
                 /\ R2.out[c][Len(R2.out[c])].src = "relay"
        item  == R2.out[c][Len(R2.out[c])]
        ends  == R2.hpc[c] = "done"
    IN  IF ~wrote THEN [R |-> R2, pend |-> NoPayload]
        ELSE IF ends
        THEN [R    |-> [R EXCEPT !.room_id[c] = R2.room_id[c], !.role[c] = R2.role[c],
                                 !.out[c] = Append(@, length_of(item)),
                                 !.hpc[c] = "send"],
              pend |-> [item |-> item, ends |-> TRUE]]
        ELSE [R    |-> [R2 EXCEPT !.out[c] = Append(R.out[c], length_of(item)),
                                  !.hpc[c] = "send"],
              pend |-> [item |-> item, ends |-> FALSE]]

\* conn.sendall(data) of _send_raw, and the break and finally after a relay_error
send_raw_data(R, c, pend) ==
    LET R1 == [relay_sendall(R, c, pend.item) EXCEPT !.hpc[c] = "recv"]
    IN  IF pend.ends THEN relay_finally(R1, c) ELSE R1

\* the peer of c has sent frame n; c's handler reads it and handles it up to
\* its first write to c
HandlerRead(c, n) ==
    /\ hPc[c] = "recv"
    /\ rSock[c] = "open"
    /\ rRecvd < MaxSendRecv
    /\ \E got \in {handle_client_to_length(Relay, c, rWire[n], rNow)} :
          /\ RelayBecomes(got.R)
          /\ wPend' = [wPend EXCEPT ![c] = got.pend]
    /\ rRecvd' = rRecvd + 1
    /\ rLast' = [c |-> c, f |-> n]
    /\ UNCHANGED <<rNow, rWire>>
    /\ UNCHANGED notSend

\* c's handler goes on in _send_raw: the second sendall
HandlerWriteData(c) ==
    /\ hPc[c] = "send"
    /\ RelayBecomes(send_raw_data(Relay, c, wPend[c]))
    /\ wPend' = [wPend EXCEPT ![c] = NoPayload]
    /\ UNCHANGED <<rNow, rRecvd, rLast, rWire>>
    /\ UNCHANGED notSend

\* _recv_all returns None: the peer of c has closed its end
HandlerEof(c) ==
    /\ hPc[c] = "recv"
    /\ RelayBecomes(relay_finally(Relay, c))
    /\ UNCHANGED <<rNow, rRecvd, rLast, rWire, wPend>>
    /\ UNCHANGED notSend

SendNext ==
    \/ \E c \in SendConns, n \in SendFrameNames : HandlerRead(c, n)
    \/ \E c \in SendConns : HandlerWriteData(c)
    \/ \E c \in SendConns : HandlerEof(c)

SpecSend == SendInit /\ [][SendNext]_vars

(***************************************************************************)
(* NetworkManager (core/network.py): the reconnect loops                   *)
(* _connect_guest_with_retries and _connect_relay_with_retries, the        *)
(* receive and heartbeat threads that end in _handle_disconnection, and    *)
(* stop().  Every thread moves one shared-variable access at a time.       *)
(***************************************************************************)
MaxLoops == 3      \* reconnect loop threads started in a run
MaxWaits == 9      \* sleeps of all reconnect loops in a run
MaxConnects == 1   \* connections made in a run

reconnect_delay_base == 1
reconnect_delay_max == 30

NetLoops == 1..MaxLoops
NetConns == 1..MaxConnects

RECURSIVE SumLen(_, _)
SumLen(f, S) ==
    IF S = {} THEN 0
    ELSE LET x == CHOOSE y \in S : TRUE IN Len(f[x]) + SumLen(f, S \ {x})
IoThreads == {"receive", "heartbeat"}

\* delay = delay * 2, without the cap
next_delay_uncapped(d) == d * 2

\* delay = min(delay * 2, self._reconnect_delay_max)
next_delay(d) == Min(d * 2, reconnect_delay_max)

\* the manager's shared state as one value, for the methods to work on
Net ==
    [running |-> running, reconnect_active |-> reconnect_active, socket |-> nSock,
     loops |-> lPc, initial |-> lInitial, first_attempt |-> lFirst, delay |-> lDelay,
     waits |-> lWaits, won |-> lWon]

NetBecomes(s) ==
    \E x \in {s} :
        /\ running' = x.running
        /\ reconnect_active' = x.reconnect_active
        /\ nSock' = x.socket
        /\ lPc' = x.loops
        /\ lInitial' = x.initial
        /\ lFirst' = x.first_attempt
        /\ lDelay' = x.delay
        /\ lWaits' = x.waits
        /\ lWon' = x.won

\* stop(): running and _reconnect_active are cleared and self.socket is closed
net_stop(N) ==
    [N EXCEPT !.running = FALSE, !.reconnect_active = FALSE,
              !.socket = [g \in DOMAIN @ |-> IF @[g] = "open" THEN "closed" ELSE @[g]]]

\* threading.Thread(target=self._connect_..._with_retries).start(): the next
\* reconnect loop thread begins, with initial as given
start_reconnect(N, init) ==
    LET idle == {l \in NetLoops : N.loops[l] = "idle"} IN
    IF idle = {} THEN N
    ELSE LET l == CHOOSE x \in idle : \A y \in idle : x <= y IN
         [N EXCEPT !.loops[l] = "new", !.initial[l] = init]

\* the end of _handle_disconnection: a reconnect loop is started unless one is
\* active or the manager is a direct host
spawn_reconnect(N) ==
    IF ~N.reconnect_active /\ (use_relay \/ ~is_host)
    THEN start_reconnect(N, FALSE)
    ELSE N

\* _handle_disconnection() run in one piece by the thread that is connecting
handle_disconnection(N) ==
    IF ~N.running THEN N
    ELSE spawn_reconnect(net_stop([N EXCEPT !.running = FALSE]))

\* _connect_guest_once / _connect_relay_once: out is what the network does
\* ("refused": connect raises; "connected"; "send_failed": the relay_register
\* written right after connecting raises inside _send_packet)
connect_once(N, l, g, out) ==
    IF out = "refused"
    THEN [N EXCEPT !.won[l] = FALSE]
    ELSE LET N1 == [N EXCEPT !.socket[g] = "open", !.running = TRUE, !.won[l] = TRUE] IN
         IF out = "send_failed" THEN handle_disconnection(N1) ELSE N1

NetInit ==
    /\ use_relay \in BOOLEAN
    /\ is_host \in BOOLEAN
    /\ use_relay \/ ~is_host
    /\ running = FALSE
    /\ reconnect_active = FALSE
    /\ nSock = [g \in NetConns |-> "none"]
    /\ lPc = [l \in NetLoops |-> IF l = 1 THEN "new" ELSE "idle"]
    /\ lInitial = [l \in NetLoops |-> l = 1]
    /\ lFirst = [l \in NetLoops |-> TRUE]
    /\ lDelay = [l \in NetLoops |-> 0]
    /\ lWaits = [l \in NetLoops |-> <<>>]
    /\ lWon = [l \in NetLoops |-> FALSE]
    /\ ioPc = [g \in NetConns |-> [t \in IoThreads |-> "off"]]
    /\ nConnects = 0
    /\ user_stopped = FALSE
    /\ OnlyNet

\* lines 320-322 and 373-375: delay, first_attempt, _reconnect_active = True
LoopStart(l) ==
    /\ lPc[l] = "new"
    /\ lDelay' = [lDelay EXCEPT ![l] = reconnect_delay_base]
    /\ lFirst' = [lFirst EXCEPT ![l] = TRUE]
    /\ reconnect_active' = TRUE
    /\ lPc' = [lPc EXCEPT ![l] = "test"]
    /\ UNCHANGED <<use_relay, is_host, user_stopped, running, nSock, lInitial, lWaits, lWon, ioPc,
                   nConnects, notNet>>

\* the while condition and the test that decides whether to wait
LoopTest(l) ==
    /\ lPc[l] = "test"
    /\ IF reconnect_active /\ ~running
       THEN IF ~lFirst[l] \/ ~lInitial[l]
            THEN lPc' = [lPc EXCEPT ![l] = "sleep"] /\ lFirst' = lFirst
            ELSE /\ lPc' = [lPc EXCEPT ![l] = "connect"]
                 /\ lFirst' = [lFirst EXCEPT ![l] = FALSE]
       ELSE lPc' = [lPc EXCEPT ![l] = "done"] /\ lFirst' = lFirst
    /\ UNCHANGED <<use_relay, is_host, user_stopped, running, reconnect_active, nSock, lInitial,
                   lDelay, lWaits, lWon, ioPc, nConnects, notNet>>

\* time.sleep(delay); delay = min(delay * 2, max); first_attempt = False
LoopSleep(l) ==
    /\ lPc[l] = "sleep"
    /\ SumLen(lWaits, NetLoops) < MaxWaits
    /\ lWaits' = [lWaits EXCEPT ![l] = Append(@, lDelay[l])]
    /\ lDelay' = [lDelay EXCEPT ![l] = next_delay(@)]
    /\ lFirst' = [lFirst EXCEPT ![l] = FALSE]
    /\ lPc' = [lPc EXCEPT ![l] = "connect"]
    /\ UNCHANGED <<use_relay, is_host, user_stopped, running, reconnect_active, nSock, lInitial,
                   lWon, ioPc, nConnects, notNet>>

\* one connect attempt; a connection made starts its receive and heartbeat
\* threads
LoopConnect(l, out) ==
    /\ lPc[l] = "connect"
    /\ out = "send_failed" => use_relay
    /\ out # "refused" => nConnects < MaxConnects
    /\ \E g \in {IF out = "refused" THEN nConnects ELSE nConnects + 1} :
          /\ nConnects' = g
          /\ ioPc' = IF out = "refused" THEN ioPc
                     ELSE [ioPc EXCEPT ![g] = [t \in IoThreads |-> "loop"]]
          /\ NetBecomes([connect_once(Net, l, g, out) EXCEPT
                            !.loops[l] = IF out = "refused" THEN "test" ELSE "won"])
    /\ UNCHANGED <<use_relay, is_host, user_stopped, notNet>>

\* self._reconnect_active = False; break
LoopWon(l) ==
    /\ lPc[l] = "won"
    /\ reconnect_active' = FALSE
    /\ lPc' = [lPc EXCEPT ![l] = "done"]
    /\ UNCHANGED <<use_relay, is_host, user_stopped, running, nSock, lInitial, lFirst, lDelay,
                   lWaits, lWon, ioPc, nConnects, notNet>>

\* _receive_loop leaves its while loop (the socket is gone, a frame could not
\* be read or parsed, or running is false) and calls _handle_disconnection
ReceiveEnds(g) ==
    /\ ioPc[g]["receive"] = "loop"
    /\ ioPc' = [ioPc EXCEPT ![g]["receive"] = "check"]
    /\ UNCHANGED <<use_relay, is_host, user_stopped, running, reconnect_active, nSock, lPc, lInitial,
                   lFirst, lDelay, lWaits, lWon, nConnects, notNet>>

\* _heartbeat_loop: it ends when running is false; a heartbeat that cannot be
\* sent or a reply that is overdue takes it into _handle_disconnection
HeartbeatEnds(g) ==
    /\ ioPc[g]["heartbeat"] = "loop"
    /\ ioPc' = [ioPc EXCEPT ![g]["heartbeat"] = IF running THEN "check" ELSE "off"]
    /\ UNCHANGED <<use_relay, is_host, user_stopped, running, reconnect_active, nSock, lPc, lInitial,
                   lFirst, lDelay, lWaits, lWon, nConnects, notNet>>

\* _handle_disconnection, line 554: if not self.running: return
HdCheck(g, t) ==
    /\ ioPc[g][t] = "check"
    /\ ioPc' = [ioPc EXCEPT ![g][t] = IF running THEN "stop" ELSE "off"]
    /\ UNCHANGED <<use_relay, is_host, user_stopped, running, reconnect_active, nSock, lPc, lInitial,
                   lFirst, lDelay, lWaits, lWon, nConnects, notNet>>

\* lines 557-559: self.running = False; self.stop()
HdStop(g, t) ==
    /\ ioPc[g][t] = "stop"
    /\ ioPc' = [ioPc EXCEPT ![g][t] = "spawn"]
    /\ NetBecomes(net_stop([Net EXCEPT !.running = FALSE]))
    /\ UNCHANGED <<use_relay, is_host, user_stopped, nConnects, notNet>>

\* lines 561-567: the reconnect thread is started
HdSpawn(g, t) ==
    /\ ioPc[g][t] = "spawn"
    /\ ioPc' = [ioPc EXCEPT ![g][t] = "off"]
    /\ NetBecomes(spawn_reconnect(Net))
    /\ UNCHANGED <<use_relay, is_host, user_stopped, nConnects, notNet>>

\* stop() called by the application
NetStop ==
    /\ running \/ reconnect_active
    /\ NetBecomes(net_stop(Net))
    /\ user_stopped' = TRUE
    /\ UNCHANGED <<use_relay, is_host, ioPc, nConnects, notNet>>

NetNext ==
    \/ \E l \in NetLoops : LoopStart(l)
    \/ \E l \in NetLoops : LoopTest(l)
    \/ \E l \in NetLoops : LoopSleep(l)
    \/ \E l \in NetLoops, out \in {"refused", "connected", "send_failed"} :
          LoopConnect(l, out)
    \/ \E l \in NetLoops : LoopWon(l)
    \/ \E g \in NetConns : ReceiveEnds(g)
    \/ \E g \in NetConns : HeartbeatEnds(g)
    \/ \E g \in NetConns, t \in IoThreads : HdCheck(g, t)
    \/ \E g \in NetConns, t \in IoThreads : HdStop(g, t)
    \/ \E g \in NetConns, t \in IoThreads : HdSpawn(g, t)
    \/ NetStop

SpecNet == NetInit /\ [][NetNext]_vars

(***************************************************************************)
(* NetworkManager (core/network.py): what is written to a new connection   *)
(* and when the heartbeat loop gives it up.  A guest or relay manager, its *)
(* connecting thread, the receive and heartbeat threads that                *)
(* _start_io_threads starts, and the application sending a message.  A     *)
(* frame is written under self._mutex, so one write is one step;           *)
(* _handle_disconnection is one step here (its races are the reconnect     *)
(* loops' section), and one connecting thread stands for the reconnect     *)
(* loops.                                                                  *)
(***************************************************************************)
MaxBeatConnects == 2   \* connections made in a run
MaxBeatFrames == 2     \* frames written to one connection
MaxBeatRecv == 2       \* frames processed in a run
BeatTickSeconds == 8   \* the clock moves in steps of BeatTickSeconds
MaxBeatClock == 16     \* and stops at MaxBeatClock

client_heartbeat_timeout == 15

BeatConns == 1..MaxBeatConnects
PeerFrameTypes == {"heartbeat", "message", "typing"}

\* the manager's shared state as one value, for the methods to work on
Beat ==
    [running |-> bRunning, socket |-> bCur, socks |-> bSock, wire |-> bWire,
     last_heartbeat |-> bLast, connecting |-> bConn]

BeatBecomes(s) ==
    \E x \in {s} :
        /\ bRunning' = x.running
        /\ bCur' = x.socket
        /\ bSock' = x.socks
        /\ bWire' = x.wire
        /\ bLast' = x.last_heartbeat
        /\ bConn' = x.connecting

\* _handle_disconnection(): nothing when not running; else running is
\* cleared, stop() closes the socket and a reconnect thread is started
beat_disconnection(B) ==
    IF ~B.running THEN B
    ELSE [B EXCEPT !.running = FALSE,
                   !.socks = [g \in DOMAIN @ |-> IF @[g] = "open" THEN "closed" ELSE @[g]],
                   !.connecting = IF @ = "idle" THEN "connect" ELSE @]

\* _send_packet(data_dict) for a frame of the given type: ok and the manager
\* after it
send_packet(B, type) ==
    IF B.socket = 0 \/ ~B.running
    THEN [ok |-> FALSE, B |-> B]
    ELSE IF B.socks[B.socket] = "open"
    THEN [ok |-> TRUE, B |-> [B EXCEPT !.wire[B.socket] = Append(@, type)]]
    ELSE [ok |-> FALSE, B |-> beat_disconnection(B)]

\* _process_message(message): what it does to last_heartbeat at time t
process_message(last_heartbeat, type, t) ==
    IF type \in {"heartbeat", "message"} THEN t ELSE last_heartbeat

\* the test of the heartbeat loop, a heartbeat_timeout that is twice as long
heartbeat_overdue_late(t, last_heartbeat) == t - last_heartbeat > 2 * client_heartbeat_timeout

\* time.time() - self.last_heartbeat > self.heartbeat_timeout
heartbeat_overdue(t, last_heartbeat) == t - last_heartbeat > client_heartbeat_timeout

\* there is room on the current connection's wire for one more frame
BeatRoom == bCur # 0 => Len(bWire[bCur]) < MaxBeatFrames

BeatInit ==
    /\ bRelay \in BOOLEAN
    /\ bRunning = FALSE
    /\ bCur = 0
    /\ bSock = [g \in BeatConns |-> "none"]
    /\ bWire = [g \in BeatConns |-> <<>>]
    /\ bLast = 0
    /\ bHeard = 0
    /\ bNow = 0
    /\ bConn = "connect"
    /\ bHb = [g \in BeatConns |-> "off"]
    /\ bRx = [g \in BeatConns |-> "off"]
    /\ bRecvd = 0
    /\ OnlyBeat

\* _connect_guest_once / _connect_relay_once up to self.running = True; a
\* refused connect leaves the thread in its loop
BeatConnect(out) ==
    /\ bConn = "connect"
    /\ ~bRunning
    /\ IF out = "refused"
       THEN UNCHANGED <<bRunning, bCur, bSock, bConn>>
       ELSE /\ bCur < MaxBeatConnects
            /\ bCur' = bCur + 1
            /\ bSock' = [bSock EXCEPT ![bCur + 1] = "open"]
            /\ bRunning' = TRUE
            /\ bConn' = "start_io"
    /\ UNCHANGED <<bRelay, bWire, bLast, bHeard, bNow, bHb, bRx, bRecvd, notBeat>>

\* _start_io_threads(self.socket): the receive thread, last_heartbeat, the
\* heartbeat thread
StartIoThreads ==
    /\ bConn = "start_io"
    /\ bRx' = [bRx EXCEPT ![bCur] = "loop"]
    /\ bHb' = [bHb EXCEPT ![bCur] = "send"]
    /\ bLast' = bNow
    /\ bHeard' = bNow
    /\ bConn' = IF bRelay THEN "register" ELSE "idle"
    /\ UNCHANGED <<bRelay, bRunning, bCur, bSock, bWire, bNow, bRecvd, notBeat>>

\* _connect_relay_once: self._send_packet({"type": "relay_register", ...})
BeatRegister ==
    /\ bConn = "register"
    /\ BeatRoom
    /\ BeatBecomes([send_packet([Beat EXCEPT !.connecting = "idle"],
                                "relay_register").B EXCEPT !.connecting = "idle"])
    /\ UNCHANGED <<bRelay, bHeard, bNow, bHb, bRx, bRecvd, notBeat>>

\* _heartbeat_loop: while self.running, send a heartbeat, break if that fails
HeartbeatSend(g) ==
    /\ bHb[g] = "send"
    /\ BeatRoom
    /\ IF ~bRunning
       THEN /\ bHb' = [bHb EXCEPT ![g] = "ended"]
            /\ UNCHANGED <<bRunning, bCur, bSock, bWire, bLast, bConn>>
       ELSE \E got \in {send_packet(Beat, "heartbeat")} :
               /\ BeatBecomes(got.B)
               /\ bHb' = [bHb EXCEPT ![g] = IF got.ok THEN "check" ELSE "ended"]
    /\ UNCHANGED <<bRelay, bHeard, bNow, bRx, bRecvd, notBeat>>

\* _heartbeat_loop: the timeout check, with _handle_disconnection and break
HeartbeatCheck(g) ==
    /\ bHb[g] = "check"
    /\ IF heartbeat_overdue(bNow, bLast)
       THEN /\ BeatBecomes(beat_disconnection(Beat))
            /\ bHb' = [bHb EXCEPT ![g] = "ended"]
       ELSE /\ bHb' = [bHb EXCEPT ![g] = "sleep"]
            /\ UNCHANGED <<bRunning, bCur, bSock, bWire, bLast, bConn>>
    /\ UNCHANGED <<bRelay, bHeard, bNow, bRx, bRecvd, notBeat>>

\* time.sleep(self.heartbeat_interval)
HeartbeatSleep(g) ==
    /\ bHb[g] = "sleep"
    /\ bHb' = [bHb EXCEPT ![g] = "send"]
    /\ UNCHANGED <<bRelay, bRunning, bCur, bSock, bWire, bLast, bHeard, bNow, bConn, bRx,
                   bRecvd, notBeat>>

\* _receive_loop: a frame of the given type arrives and is processed
BeatReceive(g, type) ==
    /\ bRx[g] = "loop"
    /\ bSock[g] = "open"
    /\ bRunning
    /\ bRecvd < MaxBeatRecv
    /\ bLast' = process_message(bLast, type, bNow)
    /\ bHeard' = IF type = "heartbeat" THEN bNow ELSE bHeard
    /\ bRecvd' = bRecvd + 1
    /\ UNCHANGED <<bRelay, bRunning, bCur, bSock, bWire, bNow, bConn, bHb, bRx, notBeat>>

\* _receive_loop: _recv_all returns None (the peer is gone or the socket is
\* closed), or running is false; break and _handle_disconnection
BeatReceiveEnds(g) ==
    /\ bRx[g] = "loop"
    /\ bRx' = [bRx EXCEPT ![g] = "ended"]
    /\ BeatBecomes(beat_disconnection(Beat))
    /\ UNCHANGED <<bRelay, bHeard, bNow, bHb, bRecvd, notBeat>>

\* send_message(sender, content) called by the application
BeatSendMessage ==
    /\ bCur # 0
    /\ bRunning
    /\ BeatRoom
    /\ BeatBecomes(send_packet(Beat, "message").B)
    /\ UNCHANGED <<bRelay, bHeard, bNow, bHb, bRx, bRecvd, notBeat>>

\* time passes
BeatTick ==
    /\ bNow < MaxBeatClock
    /\ bNow' = bNow + BeatTickSeconds
    /\ UNCHANGED <<bRelay, bRunning, bCur, bSock, bWire, bLast, bHeard, bConn, bHb, bRx,
                   bRecvd, notBeat>>

BeatNext ==
    \/ \E out \in {"refused", "connected"} : BeatConnect(out)
    \/ StartIoThreads
    \/ BeatRegister
    \/ \E g \in BeatConns : HeartbeatSend(g)
    \/ \E g \in BeatConns : HeartbeatCheck(g)
    \/ \E g \in BeatConns : HeartbeatSleep(g)
    \/ \E g \in BeatConns, type \in PeerFrameTypes : BeatReceive(g, type)
    \/ \E g \in BeatConns : BeatReceiveEnds(g)
    \/ BeatSendMessage
    \/ BeatTick

SpecBeat == BeatInit /\ [][BeatNext]_vars

(***************************************************************************)
(* core/ai_service.py: AIService._make_request and _validate_config, on    *)
(* the circuit breaker the service builds with failure_threshold and       *)
(* recovery_timeout only.  The callers are threads that share the service; *)
(* a call of a breaker method is one step.  What the provider does at a    *)
(* call is free: it returns a text, an empty or blank string or None, or   *)
(* raises.                                                                 *)
(***************************************************************************)
MaxRetries == 1    \* empty_response_retries: 0..MaxRetries
MaxRequests == 3   \* _make_request calls in a run

AiText ==
    [ k          |-> <<107>>,
      m          |-> <<109>>,
      blank      |-> <<32>>,
      empty      |-> <<>>,
      http       |-> <<104, 116, 116, 112>>,
      https      |-> <<104, 116, 116, 112, 115>>,
      ok         |-> <<111, 107>> ]

\* what the constructor is given as (api_key, model, api_base)
AiConfigs ==
    { <<AiText.k, AiText.m, <<104, 116, 116, 112, 58, 47, 47, 104, 47, 118, 49>>>>,   \* "http://h/v1"
      <<AiText.k, AiText.m, <<72, 84, 84, 80, 83, 58, 47, 47, 104, 47>>>>,   \* "HTTPS://h/"
      <<AiText.empty, AiText.m, <<104, 116, 116, 112, 58, 47, 47, 104, 47, 118, 49>>>>,
      <<AiText.blank, AiText.m, <<104, 116, 116, 112, 58, 47, 47, 104, 47, 118, 49>>>>,
      <<AiText.k, AiText.blank, <<104, 116, 116, 112, 58, 47, 47, 104, 47, 118, 49>>>>,
      <<AiText.k, AiText.m, AiText.blank>>,
      <<AiText.k, AiText.m, <<102, 116, 112, 58, 47, 47, 104>>>>,   \* "ftp://h"
      <<AiText.k, AiText.m, <<104, 116, 116, 112, 58, 47, 47>>>>,   \* "http://"
      <<AiText.k, AiText.m, <<104>>>>,   \* "h"
      <<AiText.k, AiText.m, <<104, 116, 116, 112, 58, 47, 47, 91, 58, 58, 49>>>>,   \* "http://[::1"
      <<AiText.k, AiText.m, <<102, 116, 112, 58, 47, 47, 91, 58, 58, 49>>>> }   \* "ftp://[::1"

\* the messages argument: a list of messages, an empty list, something else
AiMessages == {"list", "empty", "nonlist"}

\* what provider.generate_content does
ProviderOutcomes ==
    { [kind |-> "return", val |-> [t |-> "str", v |-> AiText.ok]],
      [kind |-> "return", val |-> [t |-> "str", v |-> AiText.empty]],
      [kind |-> "return", val |-> [t |-> "str", v |-> AiText.blank]],
      [kind |-> "return", val |-> [t |-> "null", v |-> <<>>]],
      [kind |-> "raise", val |-> [t |-> "null", v |-> <<>>]] }

\* str.strip() leaves nothing
IsBlank(s) == \A i \in 1..Len(s) : s[i] \in {9, 10, 11, 12, 13, 32}

\* str.rstrip('/')
RECURSIVE rstrip_slash(_)
rstrip_slash(s) ==
    IF s # <<>> /\ s[Len(s)] = 47 THEN rstrip_slash(SubSeq(s, 1, Len(s) - 1)) ELSE s

\* str.find: the first place of byte b in s, 0 when there is none
FindByte(s, b) ==
    IF \E i \in 1..Len(s) : s[i] = b
    THEN CHOOSE i \in 1..Len(s) : s[i] = b /\ \A j \in 1..(i - 1) : s[j] # b
    ELSE 0

AsciiAlpha(b) == b \in 65..90 \/ b \in 97..122

SchemeChar(b) == AsciiAlpha(b) \/ b \in 48..57 \/ b \in {43, 45, 46}

AsciiLower(s) == [i \in 1..Len(s) |-> IF s[i] \in 65..90 THEN s[i] + 32 ELSE s[i]]

\* where the scheme of a URL ends: the place of its ':' when what is before it
\* is a letter followed by scheme characters, else 0
SchemeEnd(url) ==
    LET i == FindByte(url, 58) IN
    IF i > 1 /\ AsciiAlpha(url[1]) /\ \A j \in 1..(i - 1) : SchemeChar(url[j])
    THEN i ELSE 0

\* urllib.parse.urlparse(url), as far as _validate_config looks at it: the
\* lower-cased scheme, the netloc between "//" and the next of "/?#", and
\* ValueError for a netloc with one square bracket but not the other
urlparse(url) ==
    LET i      == SchemeEnd(url)
        scheme == IF i = 0 THEN <<>> ELSE AsciiLower(SubSeq(url, 1, i - 1))
        rest   == SubSeq(url, i + 1, Len(url))
        slashes == Len(rest) >= 2 /\ rest[1] = 47 /\ rest[2] = 47
        after  == SubSeq(rest, 3, Len(rest))
        stops  == {j \in 1..Len(after) : after[j] \in {47, 63, 35}}
        stop   == IF stops = {} THEN Len(after) + 1
                  ELSE CHOOSE j \in stops : \A h \in stops : j <= h
        netloc == IF slashes THEN SubSeq(after, 1, stop - 1) ELSE <<>>
        opens  == \E j \in 1..Len(netloc) : netloc[j] = 91
        closes == \E j \in 1..Len(netloc) : netloc[j] = 93
    IN  IF opens # closes
        THEN [raised |-> TRUE, scheme |-> <<>>, netloc |-> <<>>]
        ELSE [raised |-> FALSE, scheme |-> scheme, netloc |-> netloc]

\* _validate_config that takes any scheme
validate_config_lax ==
    IF IsBlank(api_key) \/ IsBlank(model) \/ IsBlank(api_base) THEN "invalid"
    ELSE LET parsed == urlparse(api_base) IN
         IF parsed.raised THEN "raise"
         ELSE IF parsed.netloc = <<>> THEN "invalid"
         ELSE "valid"

\* _validate_config(): "valid" is True, "invalid" is False, "raise" is the
\* ValueError of urlparse leaving the method
validate_config ==
    IF IsBlank(api_key) \/ IsBlank(model) \/ IsBlank(api_base) THEN "invalid"
    ELSE LET parsed == urlparse(api_base) IN
         IF parsed.raised THEN "raise"
         ELSE IF parsed.scheme \notin {AiText.http, AiText.https} \/ parsed.netloc = <<>>
         THEN "invalid"
         ELSE "valid"

AiNone == [kind |-> "none", val |-> <<>>]

\* one caller's _make_request as a value: the breaker, where the call is, the
\* breaker methods it has called, its provider calls and its outcome
AiRequest(c) ==
    [b |-> Breaker, pc |-> aPc[c], attempt |-> aAttempt[c], calls |-> aCalls[c],
     log |-> aLog[c], result |-> aResult[c]]

AiBecomes(c, q) ==
    \E x \in {q} :
        /\ BreakerBecomes(x.b)
        /\ aPc' = [aPc EXCEPT ![c] = x.pc]
        /\ aAttempt' = [aAttempt EXCEPT ![c] = x.attempt]
        /\ aCalls' = [aCalls EXCEPT ![c] = x.calls]
        /\ aLog' = [aLog EXCEPT ![c] = x.log]
        /\ aResult' = [aResult EXCEPT ![c] = x.result]

\* a new call: nothing done yet
AiFresh(q) ==
    [q EXCEPT !.pc = "idle", !.attempt = 0, !.calls = 0, !.log = <<>>,
              !.result = AiNone]

\* the call ends: kind "none" is return None, "content" is return content,
\* "raise" is an exception leaving _make_request
AiReturns(q, kind, val) == [q EXCEPT !.pc = "done", !.result = [kind |-> kind, val |-> val]]

\* lines 114-125 with the result of allow_request() ignored
make_request_enter_unchecked(q, msgs, t) ==
    LET v == validate_config IN
    IF v = "raise" THEN AiReturns(q, "raise", <<>>)
    ELSE IF v = "invalid" THEN AiReturns(q, "none", <<>>)
    ELSE LET r  == allow_request(q.b, t)
             q1 == [q EXCEPT !.b = r.b, !.log = Append(@, "allow_request")]
         IN  IF msgs # "list" THEN AiReturns(q1, "none", <<>>)
             ELSE [q1 EXCEPT !.pc = "try", !.attempt = 0]

\* lines 114-125: _validate_config, allow_request, the messages check
make_request_enter(q, msgs, t) ==
    LET v == validate_config IN
    IF v = "raise" THEN AiReturns(q, "raise", <<>>)
    ELSE IF v = "invalid" THEN AiReturns(q, "none", <<>>)
    ELSE LET r  == allow_request(q.b, t)
             q1 == [q EXCEPT !.b = r.b, !.log = Append(@, "allow_request")]
         IN  IF ~r.result THEN AiReturns(q1, "none", <<>>)
             ELSE IF msgs # "list" THEN AiReturns(q1, "none", <<>>)
             ELSE [q1 EXCEPT !.pc = "try", !.attempt = 0]

\* content and isinstance(content, str) and content.strip()
GoodContent(out) ==
    out.kind = "return" /\ out.val.t = "str" /\ out.val.v # <<>> /\ ~IsBlank(out.val.v)

\* lines 161-163: record_failure and return None
make_request_exhausted(q, t) ==
    AiReturns([q EXCEPT !.b = record_failure(@, t), !.log = Append(@, "record_failure")],
              "none", <<>>)

\* one pass of the for loop, lines 132-159, the provider doing out; after the
\* last pass the loop ends and lines 161-163 follow
make_request_attempt(q, out, t) ==
    LET q1 == [q EXCEPT !.calls = @ + 1] IN
    IF GoodContent(out)
    THEN AiReturns([q1 EXCEPT !.b = record_success(@), !.log = Append(@, "record_success")],
                   "content", out.val.v)
    ELSE IF q1.attempt < empty_response_retries
    THEN [q1 EXCEPT !.pc = "sleep"]
    ELSE make_request_exhausted(q1, t)

\* AIService(api_key, api_base, model, circuit_failure_threshold,
\* circuit_recovery_timeout)
AiInit ==
    /\ \E cfg \in AiConfigs :
          /\ api_key = cfg[1]
          /\ model = cfg[2]
          /\ api_base = rstrip_slash(cfg[3])
    /\ empty_response_retries \in 0..MaxRetries
    /\ failure_threshold \in 1..MaxThreshold
    /\ recovery_timeout \in 1..MaxTimeout
    /\ half_open_success_threshold = 1
    /\ state = "closed"
    /\ failure_count = 0
    /\ success_count = 0
    /\ last_failure_time = 0
    /\ now = 0
    /\ streak = 0
    /\ trial = 0
    /\ probe = "none"
    /\ call = [op |-> "none", by |-> "none", at |-> 0, from |-> "closed", result |-> TRUE]
    /\ aPc = [c \in Callers |-> "idle"]
    /\ aAttempt = [c \in Callers |-> 0]
    /\ aCalls = [c \in Callers |-> 0]
    /\ aLog = [c \in Callers |-> <<>>]
    /\ aResult = [c \in Callers |-> AiNone]
    /\ aReqs = 0
    /\ aLast = [by |-> "none", op |-> "none", arg |-> "none"]
    /\ OnlyAi

AiFixed == <<BreakerParams, streak, trial, probe, call, api_key, model, api_base,
             empty_response_retries, notAi>>

\* caller c calls _make_request(messages) and runs it up to the for loop
MakeRequest(c, msgs) ==
    /\ aPc[c] \in {"idle", "done"}
    /\ aReqs < MaxRequests
    /\ aReqs' = aReqs + 1
    /\ AiBecomes(c, make_request_enter(AiFresh(AiRequest(c)), msgs, now))
    /\ aLast' = [by |-> c, op |-> "make_request", arg |-> msgs]
    /\ UNCHANGED <<now, AiFixed>>

\* the provider call of one pass of the loop, and what follows it
Attempt(c, out) ==
    /\ aPc[c] = "try"
    /\ AiBecomes(c, make_request_attempt(AiRequest(c), out, now))
    /\ aLast' = [by |-> c, op |-> "attempt", arg |-> out.kind]
    /\ UNCHANGED <<now, aReqs, AiFixed>>

\* lines 156-159: the sleep before the next pass
AiSleep(c) ==
    /\ aPc[c] = "sleep"
    /\ aPc' = [aPc EXCEPT ![c] = "try"]
    /\ aAttempt' = [aAttempt EXCEPT ![c] = @ + 1]
    /\ aLast' = [by |-> c, op |-> "sleep", arg |-> "none"]
    /\ UNCHANGED <<state, failure_count, success_count, last_failure_time, now, aCalls,
                   aLog, aResult, aReqs, AiFixed>>

AiNext ==
    \/ \E c \in Callers, msgs \in AiMessages : MakeRequest(c, msgs)
    \/ \E c \in Callers, out \in ProviderOutcomes : Attempt(c, out)
    \/ \E c \in Callers : AiSleep(c)
    \/ Tick

SpecAI == AiInit /\ [][AiNext]_vars

(***************************************************************************)
(* The registry lock (core/server_core.py) and the delivery of AI results  *)
(* (server.py).  Each handler thread and the controller's main thread take *)
(* self.clients_lock step by step; a sendall is two steps, its start and   *)
(* its return, and may stay between them for as long as the peer does not  *)
(* read.  User ids are the strings "a" and "b"; "" stands for None.        *)
(***************************************************************************)
MaxLockOps == 3
MaxAiReqs == 1

LockUids == <<"a", "b">>
LockThreads == Conns \cup {"M"}
ResultKinds == <<"ai_emotion", "ai_memory", "ai_suggestion">>

\* _broadcast, lines 285-287: the sockets the loop writes to, in turn
broadcast_sockets(exclude) ==
    LET Kept(u) == kClients[u] # "" /\ u # exclude
        uids == SelectSeq(LockUids, Kept)
    IN  [i \in 1..Len(uids) |-> kClients[uids[i]]]

\* the exclude argument of the _broadcast a handler is about to make
ExcludeOf(c) ==
    CASE kThen[c] = "reg_users" -> kReg[c]
      [] kThen[c] = "recv"      -> kUid[c]
      [] OTHER                  -> "none"

\* _on_ai_result, lines 394-409: the messages it sends, one for each result
\* that is truthy
result_messages(truthy) ==
    LET Kept(k) == k \in truthy IN SelectSeq(ResultKinds, Kept)

NoAiResult == [id |-> 0, uid |-> "", from |-> "", todo |-> <<>>]

LockInit ==
    /\ clients_lock = ""
    /\ kClients = [u \in {"a", "b"} |-> ""]
    /\ kConn = [c \in Conns |-> "open"]
    /\ kPc = [t \in LockThreads |-> IF t = "M" THEN "idle" ELSE "recv"]
    /\ kUid = [c \in Conns |-> ""]
    /\ kReg = [c \in Conns |-> ""]
    /\ kThen = [c \in Conns |-> ""]
    /\ kTodo = [t \in LockThreads |-> <<>>]
    /\ kWrite = [t \in LockThreads |-> ""]
    /\ kReqs = <<>>
    /\ kCur = NoAiResult
    /\ kOut = [c \in Conns |-> <<>>]
    /\ kOps = 0
    /\ OnlyLock

\* a handler reads register{user_id: u}: _handle_register up to the call of
\* _broadcast (lines 220-236); the with block of line 224 needs the lock
LockRegister(c, u) ==
    /\ kPc[c] = "recv" /\ kConn[c] = "open" /\ kOps < MaxLockOps
    /\ clients_lock = ""
    /\ kClients' = [kClients EXCEPT ![u] = c]
    /\ kReg' = [kReg EXCEPT ![c] = u]
    /\ kThen' = [kThen EXCEPT ![c] = "reg_users"]
    /\ kPc' = [kPc EXCEPT ![c] = "bcast_enter"]
    /\ kOps' = kOps + 1
    /\ UNCHANGED <<clients_lock, kConn, kUid, kTodo, kWrite, kReqs, kCur, kOut, notLock>>

\* a handler reads typing_status (lines 188-189)
LockTyping(c) ==
    /\ kPc[c] = "recv" /\ kConn[c] = "open" /\ kOps < MaxLockOps
    /\ kThen' = [kThen EXCEPT ![c] = "recv"]
    /\ kPc' = [kPc EXCEPT ![c] = "bcast_enter"]
    /\ kOps' = kOps + 1
    /\ UNCHANGED <<clients_lock, kClients, kConn, kUid, kReg, kTodo, kWrite, kReqs,
                   kCur, kOut, notLock>>

\* a registered handler reads ai_analysis_request (lines 177-181): the
\* controller starts a worker for (user_id, request) (server.py, 354-372)
LockAiRequest(c) ==
    /\ kPc[c] = "recv" /\ kConn[c] = "open" /\ kOps < MaxLockOps
    /\ kUid[c] # ""
    /\ Len(kReqs) + (IF kCur = NoAiResult THEN 0 ELSE 1) < MaxAiReqs
    /\ kReqs' = Append(kReqs, [id |-> kOps + 1, uid |-> kUid[c], from |-> c])
    /\ kOps' = kOps + 1
    /\ UNCHANGED <<clients_lock, kClients, kConn, kPc, kUid, kReg, kThen, kTodo, kWrite,
                   kCur, kOut, notLock>>

\* the read loop of a handler ends: the finally block up to the call of
\* _broadcast in _handle_disconnect (lines 193-194, 257-265), or to its end
\* when the handler has no user_id
LockClose(c) ==
    /\ kPc[c] = "recv" /\ kConn[c] = "open" /\ kOps < MaxLockOps
    /\ kOps' = kOps + 1
    /\ IF kUid[c] # ""
       THEN /\ clients_lock = ""
            /\ kClients' = [kClients EXCEPT ![kUid[c]] = ""]
            /\ kThen' = [kThen EXCEPT ![c] = "close"]
            /\ kPc' = [kPc EXCEPT ![c] = "bcast_enter"]
            /\ UNCHANGED kConn
       ELSE /\ kConn' = [kConn EXCEPT ![c] = "closed"]
            /\ kPc' = [kPc EXCEPT ![c] = "done"]
            /\ UNCHANGED <<kClients, kThen>>
    /\ UNCHANGED <<clients_lock, kUid, kReg, kTodo, kWrite, kReqs, kCur, kOut, notLock>>

\* _broadcast, line 284: the lock is taken and the loop starts
BroadcastEnter(c) ==
    /\ kPc[c] = "bcast_enter"
    /\ clients_lock = ""
    /\ clients_lock' = c
    /\ kTodo' = [kTodo EXCEPT ![c] = broadcast_sockets(ExcludeOf(c))]
    /\ kPc' = [kPc EXCEPT ![c] = "bcast"]
    /\ UNCHANGED <<kClients, kConn, kUid, kReg, kThen, kWrite, kReqs, kCur, kOut, kOps,
                   notLock>>

\* _broadcast, line 287: sendall starts on the next socket
BroadcastWrite(c) ==
    /\ kPc[c] = "bcast" /\ kWrite[c] = "" /\ kTodo[c] # <<>>
    /\ kWrite' = [kWrite EXCEPT ![c] = Head(kTodo[c])]
    /\ kTodo' = [kTodo EXCEPT ![c] = Tail(@)]
    /\ UNCHANGED <<clients_lock, kClients, kConn, kPc, kUid, kReg, kThen, kReqs, kCur,
                   kOut, kOps, notLock>>

\* sendall returns, or raises and _send_raw swallows it
BroadcastWritten(c) ==
    /\ kPc[c] = "bcast" /\ kWrite[c] # ""
    /\ kWrite' = [kWrite EXCEPT ![c] = ""]
    /\ UNCHANGED <<clients_lock, kClients, kConn, kPc, kUid, kReg, kThen, kTodo, kReqs,
                   kCur, kOut, kOps, notLock>>

\* _broadcast returns and the lock is released; after _handle_disconnect the
\* finally block closes the socket (lines 195-198)
BroadcastLeave(c) ==
    /\ kPc[c] = "bcast" /\ kWrite[c] = "" /\ kTodo[c] = <<>>
    /\ clients_lock' = ""
    /\ IF kThen[c] = "close"
       THEN /\ kConn' = [kConn EXCEPT ![c] = "closed"]
            /\ kPc' = [kPc EXCEPT ![c] = "done"]
       ELSE /\ kPc' = [kPc EXCEPT ![c] = kThen[c]]
            /\ UNCHANGED kConn
    /\ UNCHANGED <<kClients, kUid, kReg, kThen, kTodo, kWrite, kReqs, kCur, kOut, kOps,
                   notLock>>

\* _handle_register, lines 245-254: the users are collected under the lock,
\* the lock is released and sendall starts on the handler's own socket
RegisterReplyWrite(c) ==
    /\ kPc[c] = "reg_users"
    /\ clients_lock = ""
    /\ kWrite' = [kWrite EXCEPT ![c] = c]
    /\ kPc' = [kPc EXCEPT ![c] = "reg_send"]
    /\ UNCHANGED <<clients_lock, kClients, kConn, kUid, kReg, kThen, kTodo, kReqs, kCur,
                   kOut, kOps, notLock>>

\* sendall returns, _handle_register returns user_id (lines 255, 166)
RegisterReplyWritten(c) ==
    /\ kPc[c] = "reg_send"
    /\ kWrite' = [kWrite EXCEPT ![c] = ""]
    /\ kUid' = [kUid EXCEPT ![c] = kReg[c]]
    /\ kReg' = [kReg EXCEPT ![c] = ""]
    /\ kPc' = [kPc EXCEPT ![c] = "recv"]
    /\ UNCHANGED <<clients_lock, kClients, kConn, kThen, kTodo, kReqs, kCur, kOut, kOps,
                   notLock>>

\* a worker's result arrives on the main thread: _on_ai_result(user_id, result)
\* (server.py, 389-392), the results in truthy being the ones that are not empty
OnAiResult(truthy) ==
    /\ kPc["M"] = "idle" /\ kReqs # <<>>
    /\ kCur' = [id |-> Head(kReqs).id, uid |-> Head(kReqs).uid, from |-> Head(kReqs).from,
                todo |-> result_messages(truthy)]
    /\ kReqs' = Tail(kReqs)
    /\ kPc' = [kPc EXCEPT !["M"] = "send"]
    /\ UNCHANGED <<clients_lock, kClients, kConn, kUid, kReg, kThen, kTodo, kWrite, kOut,
                   kOps, notLock>>

\* send_to_client(user_id, msg), lines 116-119: the lock is taken, the entry
\* under user_id is looked up and, if there is one, sendall starts on its socket
SendToClient ==
    /\ kPc["M"] = "send" /\ kCur.todo # <<>>
    /\ clients_lock = ""
    /\ IF kClients[kCur.uid] # ""
       THEN /\ clients_lock' = "M"
            /\ kWrite' = [kWrite EXCEPT !["M"] = kClients[kCur.uid]]
            /\ kPc' = [kPc EXCEPT !["M"] = "sending"]
            /\ UNCHANGED kCur
       ELSE /\ kCur' = [kCur EXCEPT !.todo = Tail(@)]
            /\ UNCHANGED <<clients_lock, kWrite, kPc>>
    /\ UNCHANGED <<kClients, kConn, kUid, kReg, kThen, kTodo, kReqs, kOut, kOps, notLock>>

\* sendall returns (or raises, on a closed socket, and _send_raw swallows it)
\* and send_to_client releases the lock
SendToClientWritten ==
    /\ kPc["M"] = "sending"
    /\ kOut' = IF kConn[kWrite["M"]] = "open"
               THEN [kOut EXCEPT ![kWrite["M"]] =
                        Append(@, [id |-> kCur.id, from |-> kCur.from,
                                   type |-> Head(kCur.todo)])]
               ELSE kOut
    /\ kWrite' = [kWrite EXCEPT !["M"] = ""]
    /\ clients_lock' = ""
    /\ kCur' = [kCur EXCEPT !.todo = Tail(@)]
    /\ kPc' = [kPc EXCEPT !["M"] = "send"]
    /\ UNCHANGED <<kClients, kConn, kUid, kReg, kThen, kTodo, kReqs, kOps, notLock>>

\* _on_ai_result returns
OnAiResultDone ==
    /\ kPc["M"] = "send" /\ kCur.todo = <<>>
    /\ kCur' = NoAiResult
    /\ kPc' = [kPc EXCEPT !["M"] = "idle"]
    /\ UNCHANGED <<clients_lock, kClients, kConn, kUid, kReg, kThen, kTodo, kWrite, kReqs,
                   kOut, kOps, notLock>>

LockNext ==
    \/ \E c \in Conns : \E u \in {"a", "b"} : LockRegister(c, u)
    \/ \E c \in Conns : LockTyping(c)
    \/ \E c \in Conns : LockAiRequest(c)
    \/ \E c \in Conns : LockClose(c)
    \/ \E c \in Conns : BroadcastEnter(c)
    \/ \E c \in Conns : BroadcastWrite(c)
    \/ \E c \in Conns : BroadcastWritten(c)
    \/ \E c \in Conns : BroadcastLeave(c)
    \/ \E c \in Conns : RegisterReplyWrite(c)
    \/ \E c \in Conns : RegisterReplyWritten(c)
    \/ \E truthy \in SUBSET {"ai_emotion", "ai_memory", "ai_suggestion"} : OnAiResult(truthy)
    \/ SendToClient
    \/ SendToClientWritten
    \/ OnAiResultDone

SpecLock == LockInit /\ [][LockNext]_vars

(***************************************************************************)
(* OpenAIProvider.generate_content (core/providers/openai_provider.py).    *)
(* _do_request is decorated with retry_with_backoff(3, 1.0, 30.0,          *)
(* retryable_exceptions = (requests.Timeout, requests.ConnectionError,     *)
(* ConnectionError)), so the wrapper is the one of core/providers/retry.py *)
(* and its variables are the retry variables.  What requests.post does is  *)
(* free: it raises, or returns a response with a status and a body.        *)
(***************************************************************************)
ApiText ==
    [ choices     |-> <<99, 104, 111, 105, 99, 101, 115>>,
      message     |-> <<109, 101, 115, 115, 97, 103, 101>>,
      text        |-> <<116, 101, 120, 116>>,
      delta       |-> <<100, 101, 108, 116, 97>>,
      model       |-> <<109, 111, 100, 101, 108>>,
      messages    |-> <<109, 101, 115, 115, 97, 103, 101, 115>>,
      temperature |-> <<116, 101, 109, 112, 101, 114, 97, 116, 117, 114, 101>>,
      max_tokens  |-> <<109, 97, 120, 95, 116, 111, 107, 101, 110, 115>>,
      role        |-> <<114, 111, 108, 101>>,
      user        |-> <<117, 115, 101, 114>>,
      http        |-> <<104, 116, 116, 112>> ]

\* str.strip()
RECURSIVE py_strip(_)
py_strip(s) ==
    IF s = <<>> THEN s
    ELSE IF IsBlank(<<s[1]>>) THEN py_strip(Tail(s))
    ELSE IF IsBlank(<<s[Len(s)]>>) THEN py_strip(SubSeq(s, 1, Len(s) - 1))
    ELSE s

\* str.startswith(prefix)
startswith(s, prefix) == Len(s) >= Len(prefix) /\ SubSeq(s, 1, Len(prefix)) = prefix

ChatMessage(text) ==
    JObj(<< <<ApiText.role, JStr(ApiText.user)>>, <<Text.content, JStr(text)>> >>)

\* the messages arguments: None, [], one message, one message whose text is
\* a lone surrogate (as json.loads makes of the escape \ud83d)
ProviderMessages ==
    {JNull, JArr(<<>>), JArr(<<ChatMessage(Word.hi)>>), JArr(<<ChatMessage(<<55357>>)>>)}

Choices(choice) == JObj(<< <<ApiText.choices, JArr(<<choice>>)>> >>)

MessageChoice(c) ==
    JObj(<< <<ApiText.message, JObj(<< <<Text.content, c>> >>)>> >>)

\* what one requests.post can do: [post, status_ok, json_ok, data]
Response(post, status_ok, json_ok, data) ==
    [post |-> post, status_ok |-> status_ok, json_ok |-> json_ok, data |-> data]

ProviderResponses ==
    {Response(e, FALSE, FALSE, JNull) :
        e \in {"requests.Timeout", "requests.ConnectionError", "ConnectionError"}}
    \cup {Response("ok", FALSE, TRUE, JObj(<<>>)),          \* an HTTP error status
          Response("ok", TRUE, FALSE, JNull),               \* a body that is not JSON
          Response("ok", TRUE, TRUE, JArr(<<>>)),           \* JSON, not an object
          Response("ok", TRUE, TRUE, JObj(<<>>)),           \* no choices
          Response("ok", TRUE, TRUE, Choices(MessageChoice(JNull))),
          Response("ok", TRUE, TRUE, Choices(MessageChoice(JStr(<<32, 32, 32>>)))),
          Response("ok", TRUE, TRUE, Choices(MessageChoice(JStr(<<32, 111, 107>>)))),
          Response("ok", TRUE, TRUE,
                   Choices(JObj(<< <<ApiText.text, JStr(<<111, 107>>)>> >>))),
          Response("ok", TRUE, TRUE,
                   Choices(JObj(<< <<ApiText.delta,
                                     JObj(<< <<Text.content, JStr(<<111>>)>> >>)>> >>)))}

\* _do_request, lines 70-80: the content of the first choice, JNull when
\* there is none that is a string
first_content(choices) ==
    LET first_choice == IF choices.v[1].t = "obj" THEN choices.v[1] ELSE JObj(<<>>)
        message == Get(first_choice, ApiText.message, JObj(<<>>))
        c1 == IF message.t = "obj" THEN Get(message, Text.content, JNull) ELSE JNull
        c2 == IF c1.t # "str" THEN Get(first_choice, ApiText.text, JNull) ELSE c1
        delta == Get(first_choice, ApiText.delta, JNull)
    IN  IF c2.t = "str" THEN c2
        ELSE IF delta.t = "obj" THEN Get(delta, Text.content, JNull) ELSE JNull

Raises(cls, resp) == [kind |-> "raise", val |-> "None", cls |-> cls, resp |-> resp]

\* _do_request(), lines 52-91: what one invocation does
do_request(resp) ==
    IF resp.post # "ok" THEN Raises(resp.post, resp)
    ELSE IF ~resp.status_ok THEN Raises("requests.HTTPError", resp)
    ELSE IF ~resp.json_ok THEN Raises("JSONDecodeError", resp)
    ELSE IF resp.data.t # "obj" THEN Raises("AttributeError", resp)
    ELSE LET choices == Get(resp.data, ApiText.choices, JNull) IN
         IF choices.t # "arr" \/ choices.v = <<>> THEN Raises("ValueError", resp)
         ELSE LET c == first_content(choices) IN
              IF c.t # "str" THEN Raises("ValueError", resp)
              ELSE IF py_strip(c.v) = <<>> THEN Raises("ValueError", resp)
              ELSE [kind |-> "return", val |-> py_strip(c.v), cls |-> "none",
                    resp |-> resp]

\* lines 32-37: the payload
Payload ==
    JObj(<< <<ApiText.model, JStr(oModel)>>, <<ApiText.messages, oMessages>>,
            <<ApiText.temperature, JFloat(<<48, 46, 55>>)>>,
            <<ApiText.max_tokens, JInt(500)>> >>)

ProviderResult(kind, none, val) == [kind |-> kind, none |-> none, val |-> val]

\* lines 19-44: how generate_content ends before the request, "request" when
\* it goes on to it
generate_content_enter ==
    IF IsBlank(oKey) \/ IsBlank(oModel) THEN ProviderResult("returned", TRUE, <<>>)
    ELSE IF oMessages.t # "arr" \/ oMessages.v = <<>>
    THEN ProviderResult("returned", TRUE, <<>>)
    ELSE IF ~startswith(oBase, ApiText.http) THEN ProviderResult("returned", TRUE, <<>>)
    ELSE IF ~Utf8Encode(json_dumps(Payload)).ok
    THEN ProviderResult("raised", FALSE, <<>>)       \* UnicodeEncodeError, line 44
    ELSE ProviderResult("request", FALSE, <<>>)

\* lines 93-113: the try statement around _do_request(), the wrapper having
\* ended as r
generate_content_leave(r) ==
    IF r.kind = "returned" THEN ProviderResult("returned", FALSE, r.val)
    ELSE IF r.kind = "RetryError" THEN ProviderResult("returned", TRUE, <<>>)
    ELSE IF "Exception" \in Bases(r.err.cls) THEN ProviderResult("returned", TRUE, <<>>)
    ELSE ProviderResult("raised", FALSE, <<>>)

ProviderInit ==
    /\ oKey \in {<<107>>, <<32>>}
    /\ oModel \in {<<109>>, <<>>}
    /\ oBase \in {rstrip_slash(b) : b \in {<<104, 116, 116, 112, 58, 47, 47, 104, 47>>,
                                           <<102, 116, 112, 58, 47, 47, 104>>}}
    /\ oMessages \in ProviderMessages
    /\ oPc = "new"
    /\ oResult = ProviderResult("none", FALSE, <<>>)
    /\ max_attempts = 3
    /\ base_delay = 1
    /\ max_delay = 30
    /\ exponential_base = 2
    /\ retryable_exceptions = {"requests.Timeout", "requests.ConnectionError",
                               "ConnectionError"}
    /\ rPc = "off"
    /\ attempt = 0
    /\ last_exception = <<>>
    /\ delay = 0
    /\ calls = <<>>
    /\ sleeps = <<>>
    /\ rResult = NoResult
    /\ OnlyProvider

\* generate_content(messages) up to the call of _do_request()
GenerateContent ==
    /\ oPc = "new"
    /\ LET r == generate_content_enter IN
         IF r.kind = "request"
         THEN oPc' = "request" /\ rPc' = "idle" /\ oResult' = oResult
         ELSE oPc' = "done" /\ rPc' = rPc /\ oResult' = r
    /\ UNCHANGED <<oKey, oModel, oBase, oMessages, RetryParams, attempt, last_exception,
                   delay, calls, sleeps, rResult, notProvider>>

\* the wrapper has returned or raised: the except clauses and the return
GenerateContentLeave ==
    /\ oPc = "request" /\ rPc = "done"
    /\ oResult' = generate_content_leave(rResult)
    /\ oPc' = "done"
    /\ UNCHANGED <<oKey, oModel, oBase, oMessages, retryVars, notProvider>>

ProviderNext ==
    \/ GenerateContent
    \/ Wrapper
    \/ \E resp \in ProviderResponses : Invoke(do_request(resp))
    \/ Sleep
    \/ GenerateContentLeave

SpecProvider == ProviderInit /\ [][ProviderNext]_vars

(***************************************************************************)
(* The properties.                                                         *)
(***************************************************************************)

FailsCheck(n) ==
    LET d == wire.dec[wire.frames[n]] IN ~d.crcOk \/ ~d.msg.ok

\* the frames of C3: the CRC check passes, the payload is JSON, and its type
\* is missing or none of those the read loop handles
Unhandled(n) ==
    LET d == wire.dec[wire.frames[n]] IN
    /\ d.crcOk
    /\ d.msg.ok
    /\ \/ d.msg.val.t # "obj"
       \/ Get(d.msg.val, Text.type, JNull) \notin
             {JStr(Text.register), JStr(Text.chat_message),
              JStr(Text.ai_analysis_request), JStr(Text.ping), JStr(Text.typing_status)}

\* what the server holds and what it has sent
Observable == <<clients, outbox, msg_count, ai_req_count, user_id>>

\* C2: a frame whose payload fails the CRC check or is not valid JSON is
\* discarded: the registry is unchanged, nothing is sent to any session, the
\* connection stays open and its handler goes on to read the next frame.
C2_BadFrameDiscarded ==
    [][(recvd' # recvd /\ FailsCheck(last'.f)) =>
          /\ clients' = clients
          /\ outbox' = outbox
          /\ conn' = conn
          /\ pc'[last'.c] = "recv"]_vars

\* C3: a frame that passes the CRC check and decodes as JSON but whose type is
\* missing or unhandled is ignored: no server state changes, nothing is
\* forwarded, and the connection is not terminated.
C3_UnhandledIgnored ==
    [][(recvd' # recvd /\ Unhandled(last'.f)) =>
          /\ Observable' = Observable
          /\ conn' = conn
          /\ pc'[last'.c] = "recv"]_vars

\* the entries of registry d under user id u
EntriesOf(d, u) == {i \in 1..Len(d) : d[i][1] = u}

\* C4: when a register envelope has been handled (also one that carries a
\* user_id already registered, by this or by another connection), the registry
\* holds exactly one entry for that user_id and its socket is the connection
\* that has just registered.
C4_OneEntryPerUser ==
    [][(recvd' # recvd /\ pc'[last'.c] = "reg_bcast") =>
          LET u == reg'[last'.c].uid IN
          /\ Cardinality(EntriesOf(clients', u)) = 1
          /\ \A i \in EntriesOf(clients', u) : clients'[i][2].socket = last'.c]_vars

\* A registered as "a", then B has registered as "a": one entry, B's socket
C4_Witness ==
    /\ user_id["A"] = JStr(Word.a)
    /\ last = [c |-> "B", f |-> "RegA"]
    /\ pc["B"] = "reg_bcast"
    /\ Len(clients) = 1
    /\ clients[1][1] = JStr(Word.a)
    /\ clients[1][2].socket = "B"

\* connection c is the socket of a registry entry
Session(c) == \E i \in 1..Len(clients) : clients[i][2].socket = c

\* the frames of C5: chat_message with target "public"
IsPublicChat(n) ==
    LET d == wire.dec[wire.frames[n]] IN
    /\ d.crcOk /\ d.msg.ok /\ d.msg.val.t = "obj"
    /\ Get(d.msg.val, Text.type, JNull) = JStr(Text.chat_message)
    /\ Get(d.msg.val, Text.target, JNull) = JStr(Text.public)

\* C5: a chat_message with target "public" sent by session S is delivered to
\* every other registered session and never back to S.
C5_PublicChatNotEchoed ==
    [][(recvd' # recvd /\ IsPublicChat(last'.f) /\ Session(last'.c)) =>
          /\ outbox'[last'.c] = outbox[last'.c]
          /\ \A d \in Conns \ {last'.c} :
                (Session(d) /\ conn[d] = "open") =>
                   outbox'[d] = Append(outbox[d], wire.frames[last'.f])]_vars

\* the messages connection c has received, decoded
Received(c) == [i \in 1..Len(outbox[c]) |-> ReadFrame(outbox[c][i]).msg.val]

\* the end-to-end scenario has run to its end
ScenarioDone == scen = Len(Script) /\ pc["A"] = "done" /\ pc["B"] = "recv"

\* C6 as the specification has it: after the scenario B has received
\* user_joined{a}, then A's chat message unchanged, then user_left{a}.
C6_ScenarioAsStated ==
    ScenarioDone =>
       Received("B") = << UserJoinedMsg(RegFields(ClientEnvelopes.RegA)),
                          ClientEnvelopes.ChatHi,
                          UserLeftMsg(JStr(Word.a)) >>

\* C6: after the scenario B has received online_users listing a (the answer to
\* its own register), then A's chat message unchanged, then user_left{a}, and
\* nothing else.
C6_Scenario ==
    ScenarioDone =>
       /\ Received("B") =
             << OnlineUsersMsg(<<UserEntry(RegFields(ClientEnvelopes.RegA))>>),
                ClientEnvelopes.ChatHi,
                UserLeftMsg(JStr(Word.a)) >>
       /\ outbox["B"][2] = wire.frames.ChatHi

C6_Witness == ScenarioDone /\ Len(outbox["B"]) = 3 /\ clients # <<>>

\* C7: a closed breaker opens exactly at the record_failure that makes
\* failure_threshold of them since the last record_success (fewer leave it
\* closed, no other call opens it), and an allow_request() made before any
\* time has passed since the failure that opened it returns false.
C7_OpensAtThreshold ==
    /\ (call.op = "failure" /\ call.from = "closed") =>
          /\ state \in {"closed", "open"}
          /\ state = "open" <=> streak = failure_threshold
          /\ state = "closed" => streak < failure_threshold
    /\ (call.op \in {"allow", "success"} /\ call.from = "closed") => state = "closed"
    /\ (call.op = "allow" /\ call.from = "open" /\ call.at = last_failure_time) =>
          ~call.result /\ state = "open"

\* two failures in a row have opened a breaker of threshold 2
C7_Witness ==
    /\ failure_threshold = 2
    /\ call.op = "failure" /\ call.from = "closed"
    /\ streak = 2
    /\ state = "open"

\* C8: an allow_request() on an open breaker returns false while less than
\* recovery_timeout has passed since the last failure; once that much has
\* passed it returns true and the breaker is half-open; the record_success
\* that makes half_open_success_threshold of them in a half-open breaker
\* closes it, fewer leave it half-open.
C8_Recovery ==
    /\ (call.op = "allow" /\ call.from = "open"
          /\ call.at - last_failure_time < recovery_timeout) =>
          ~call.result /\ state = "open"
    /\ (call.op = "allow" /\ call.from = "open"
          /\ call.at - last_failure_time >= recovery_timeout) =>
          call.result /\ state = "half_open"
    /\ (call.op = "success" /\ call.from = "half_open") =>
          /\ state \in {"half_open", "closed"}
          /\ state = "closed" <=> trial = half_open_success_threshold

\* the second success of a half-open period has closed a breaker whose
\* half_open_success_threshold is 2
C8_Witness ==
    /\ half_open_success_threshold = 2
    /\ call.op = "success" /\ call.from = "half_open"
    /\ trial = 2
    /\ state = "closed"

\* C9: any record_failure() on a half-open breaker opens it at once and
\* restarts the recovery timer.
C9_HalfOpenFailureOpens ==
    (call.op = "failure" /\ call.from = "half_open") =>
       state = "open" /\ last_failure_time = call.at

\* C10: while the caller whose allow_request() turned the breaker half-open has
\* recorded no outcome, no other caller's allow_request() returns true.
C10_SingleProbe ==
    (call.op = "allow" /\ call.from = "half_open" /\ probe \notin {"none", call.by}) =>
       ~call.result

\* is an exception of class cls in the set handed to retry_with_backoff
InRetryableSet(cls) == \E b \in Bases(cls) : b \in retryable_exceptions

\* invocation i of func raised an exception of the retryable set
FailedRetryably(i) == calls[i].kind = "raise" /\ InRetryableSet(calls[i].cls)

\* the exception invocation i raised
ErrorOf(i) == [cls |-> calls[i].cls, at |-> i]

\* C11: when every invocation so far has raised a retryable error, func has
\* been invoked at most max_attempts times; the wrapper raises RetryError
\* exactly when func has been invoked max_attempts times, and then the
\* RetryError's last_exception is the exception of the last invocation.
C11_RetryExhausted ==
    (calls # <<>> /\ \A i \in 1..Len(calls) : FailedRetryably(i)) =>
       /\ Len(calls) <= max_attempts
       /\ Len(calls) = max_attempts <=> rResult.kind = "RetryError"
       /\ Len(calls) = max_attempts =>
             /\ rPc = "done"
             /\ rResult.last_exception = ErrorOf(max_attempts)
       /\ Len(calls) < max_attempts => rPc \in {"sleep", "try"} /\ rResult.kind = "none"

\* three attempts out of three have failed with retryable errors
C11_Witness ==
    /\ max_attempts = 3
    /\ Len(calls) = 3
    /\ \A i \in 1..3 : FailedRetryably(i)
    /\ Len(sleeps) = 2
    /\ rResult.kind = "RetryError"

\* C12: an invocation that raises an error outside the retryable set ends the
\* wrapper: that same exception reaches the caller, not wrapped in a
\* RetryError, func is not invoked again and no sleep follows; when it is the
\* first invocation, func has been invoked once and nothing has slept.
C12_NonRetryablePropagates ==
    \A i \in 1..Len(calls) :
       (calls[i].kind = "raise" /\ ~InRetryableSet(calls[i].cls)) =>
          /\ i = Len(calls)
          /\ rPc = "done"
          /\ rResult.kind = "raised"
          /\ rResult.err = ErrorOf(i)
          /\ Len(sleeps) = i - 1

\* a TypeError at the first invocation, only ValueError being retryable
C12_Witness ==
    /\ retryable_exceptions = {"ValueError"}
    /\ max_attempts = 3
    /\ Len(calls) = 1
    /\ calls[1].kind = "raise" /\ calls[1].cls = "TypeError"
    /\ sleeps = <<>>
    /\ rResult.kind = "raised"

\* C13: once an invocation of func has returned, it is the last invocation,
\* the wrapper has returned its value, every earlier invocation raised a
\* retryable error, and func has been invoked k <= max_attempts times with
\* k - 1 sleeps between the invocations.
C13_ReturnsFirstSuccess ==
    \A k \in 1..Len(calls) :
       calls[k].kind = "return" =>
          /\ k = Len(calls)
          /\ k <= max_attempts
          /\ rPc = "done"
          /\ rResult.kind = "returned"
          /\ rResult.val = calls[k].val
          /\ \A i \in 1..(k - 1) : FailedRetryably(i)
          /\ Len(sleeps) = k - 1

\* func has succeeded at the second of three attempts
C13_Witness ==
    /\ max_attempts = 3
    /\ Len(calls) = 2
    /\ FailedRetryably(1)
    /\ calls[2].kind = "return" /\ calls[2].val = "success"
    /\ rResult.kind = "returned" /\ rResult.val = "success"

\* the weights the claim calls recognised, as numbers (0 for what float rejects)
RecognisedWeight(k) ==
    IF k \in DOMAIN emotion_data.v /\ emotion_data.v[k].t \in {"int", "bool", "str"}
    THEN to_float(emotion_data.v[k]).val
    ELSE 0

RecognisedTotal ==
    RecognisedWeight("neutral") + RecognisedWeight("happy") + RecognisedWeight("tense")
       + RecognisedWeight("negative")

\* C14: a call of analyze_emotion that gets a JSON object from the backend
\* returns {neutral: 1.0} when the weights of the four labels total zero, and
\* otherwise each of the four labels with its weight divided by the total,
\* which sum to 1; no other label is in the result.
C14_EmotionNormalised ==
    (ePc = "done" /\ emotion_data.t = "dict" /\ DOMAIN emotion_data.v # {}) =>
       /\ eResult.kind = "returned"
       /\ IF RecognisedTotal = 0
          THEN eResult = NeutralOnly
          ELSE /\ DOMAIN eResult.val = EmotionLabels
               /\ \A k \in EmotionLabels :
                     eResult.val[k] = <<RecognisedWeight(k), RecognisedTotal>>

\* frame n is a relay_register envelope
IsRelayRegister(n) ==
    /\ rWire[n].length > 0
    /\ rWire[n].msg.ok
    /\ rWire[n].msg.val.t = "obj"
    /\ IsStr(Get(rWire[n].msg.val, Text.type, JNull), RelayText.relay_register)

\* the step reads frame n from connection s
RelayReads(s, n) == rRecvd' = rRecvd + 1 /\ rLast'.c = s /\ rLast'.f = n

\* connection s is registered for role in room r: it holds the slot, its record
\* says so, and its handler is running on an open socket
RegisteredAs(s, r, role) ==
    /\ r \in DOMAIN rooms /\ role \in DOMAIN rooms[r] /\ rooms[r][role] = s
    /\ s \in DOMAIN rclients /\ rclients[s].room_id = r /\ rclients[s].role = role
    /\ hRoom[s] = r /\ hRole[s] = role
    /\ hPc[s] = "recv" /\ rSock[s] = "open"

OtherRole(role) == IF role = RelayText.host THEN RelayText.guest ELSE RelayText.host

Forwarded(s, n) == [src |-> s, kind |-> "frame", raw |-> rWire[n].raw, info |-> <<>>]

\* C15: with s registered for a role of room r, a step that reads a frame
\* from s that is no relay_register appends exactly that frame's bytes to what
\* is written to the connection registered for the other role of r, and to no
\* other connection, the sender included; when nobody holds the other role
\* the frame is written to no connection.
C15_ForwardedVerbatim ==
    [][\A s \in RelayConns, n \in RelayFrameNames :
         \A r \in DOMAIN rooms, role \in {RelayText.host, RelayText.guest} :
            (RelayReads(s, n) /\ ~IsRelayRegister(n) /\ RegisteredAs(s, r, role)) =>
               /\ \A o \in RelayConns \ {s} :
                     RegisteredAs(o, r, OtherRole(role)) =>
                        /\ rOut'[o] = Append(rOut[o], Forwarded(s, n))
                        /\ \A d \in RelayConns \ {o} : rOut'[d] = rOut[d]
               /\ OtherRole(role) \notin DOMAIN rooms[r] =>
                     \A d \in RelayConns \ {s} : rOut'[d] = rOut[d]
      ]_vars

\* the (room, role) slots a connection holds
SlotsOf(rms, c) ==
    {<<r, role>> \in (DOMAIN rms) \X {RelayText.host, RelayText.guest} :
        role \in DOMAIN rms[r] /\ rms[r][role] = c}

\* the slot a relay_register frame asks for
AsksFor(n) ==
    [room_id |-> StrOr(rWire[n].msg.val, RelayText.room_id, RelayText.default),
     role    |-> StrOr(rWire[n].msg.val, RelayText.role, RelayText.guest)]

RegisterFailed ==
    [src |-> "relay", kind |-> "relay_error", raw |-> <<>>, info |-> <<"REGISTER_FAILED">>]

\* C16: a step that reads from connection c a relay_register for a slot that
\* another connection o holds writes relay_error to c and closes c; o keeps
\* the slot; the record and the slots of every connection other than c are as
\* they were and nothing is written to them; and when c held no record and no
\* slot, the room table and the client table are exactly as they were.
C16_NoTakeover ==
    [][\A c \in RelayConns, n \in RelayFrameNames :
         (RelayReads(c, n) /\ IsRelayRegister(n)) =>
            LET r == AsksFor(n).room_id
                role == AsksFor(n).role
            IN  (r \in DOMAIN rooms /\ role \in DOMAIN rooms[r] /\ rooms[r][role] # c) =>
                   /\ rOut'[c] = Append(rOut[c], RegisterFailed)
                   /\ rSock'[c] = "closed" /\ hPc'[c] = "done"
                   /\ r \in DOMAIN rooms' /\ role \in DOMAIN rooms'[r]
                   /\ rooms'[r][role] = rooms[r][role]
                   /\ \A d \in RelayConns \ {c} :
                         /\ SlotsOf(rooms', d) = SlotsOf(rooms, d)
                         /\ d \in DOMAIN rclients' <=> d \in DOMAIN rclients
                         /\ d \in DOMAIN rclients => rclients'[d] = rclients[d]
                         /\ rOut'[d] = rOut[d]
                         /\ rSock'[d] = rSock[d]
                   /\ (c \notin DOMAIN rclients /\ SlotsOf(rooms, c) = {}) =>
                         rooms' = rooms /\ rclients' = rclients
      ]_vars

\* C, which held nothing, has asked for the host slot of r1 that A holds
C16_Witness ==
    /\ rLast = [c |-> "C", f |-> "Host1"]
    /\ SlotsOf(rooms, "A") = {<<RelayText.r1, RelayText.host>>}
    /\ "A" \in DOMAIN rclients /\ rSock["A"] = "open"
    /\ rOut["C"] = <<RegisterFailed>>
    /\ rSock["C"] = "closed"
    /\ "C" \notin DOMAIN rclients

\* C17: the delays one reconnect loop has slept never decrease from one wait
\* to the next and never exceed _reconnect_delay_max, and every loop started
\* by a disconnection, so also the one that follows a successful connection,
\* sleeps _reconnect_delay_base first.
C17_BackoffMonotone ==
    \A l \in NetLoops :
        /\ \A i \in 1..Len(lWaits[l]) :
              /\ lWaits[l][i] <= reconnect_delay_max
              /\ i > 1 => lWaits[l][i - 1] <= lWaits[l][i]
        /\ lWaits[l] # <<>> => lWaits[l][1] = reconnect_delay_base

\* a loop that has slept up to the cap twice and then connected, and the loop
\* started by the loss of that connection, which has begun from the base again
C17_Witness ==
    \E l \in NetLoops, k \in NetLoops :
        /\ l < k
        /\ lPc[l] = "done" /\ lWon[l]
        /\ Len(lWaits[l]) >= 2
        /\ lWaits[l][Len(lWaits[l])] = reconnect_delay_max
        /\ lWaits[l][Len(lWaits[l]) - 1] = reconnect_delay_max
        /\ ~lInitial[k]
        /\ Len(lWaits[k]) >= 2
        /\ lWaits[k][1] = reconnect_delay_base

\* the step is caller c entering _make_request
Enters(c) == aReqs' = aReqs + 1 /\ aLast'.by = c /\ aLast'.op = "make_request"

\* the step is a provider call of caller c's request
Attempts(c) == aReqs' = aReqs /\ aLast' # aLast /\ aLast'.by = c /\ aLast'.op = "attempt"

\* C18: a _make_request entered while the breaker is open and less than
\* recovery_timeout has passed since the last failure ends at once with no
\* result and no provider call, and leaves the breaker's state and
\* failure_count as they were.
C18_OpenBlocks ==
    [][\A c \in Callers :
         (Enters(c) /\ state = "open" /\ now - last_failure_time < recovery_timeout) =>
            /\ aPc'[c] = "done"
            /\ aResult'[c] = AiNone
            /\ aCalls'[c] = 0
            /\ state' = "open"
            /\ failure_count' = failure_count
      ]_vars

\* a request with a list of messages that the open breaker has just refused
C18_Witness ==
    \E c \in Callers :
        /\ aLast = [by |-> c, op |-> "make_request", arg |-> "list"]
        /\ state = "open"
        /\ now - last_failure_time < recovery_timeout
        /\ aLog[c] = <<"allow_request">>
        /\ aPc[c] = "done" /\ aCalls[c] = 0 /\ aResult[c] = AiNone

\* how often a request has called record_failure
Failures(log) == Cardinality({i \in 1..Len(log) : log[i] = "record_failure"})

\* the step ends caller c's request with its last provider call failed
Exhausts(c) == Attempts(c) /\ aPc'[c] = "done" /\ aResult'[c].kind # "content"

\* C19: no _make_request ends by raising; a request whose provider calls have
\* all failed (an exception, or an empty or blank response) ends with None,
\* has called record_failure exactly once, at its end and not while attempts
\* remain, and that call adds one to failure_count and opens the breaker once
\* failure_count reaches failure_threshold.
C19_NeverRaisesOneFailure ==
    [][\A c \in Callers :
         /\ aResult'[c].kind # "raise"
         /\ aPc'[c] \in {"try", "sleep"} => Failures(aLog'[c]) = 0
         /\ Exhausts(c) =>
               /\ aResult'[c] = AiNone
               /\ aCalls'[c] = empty_response_retries + 1
               /\ Failures(aLog'[c]) = 1
               /\ failure_count' = failure_count + 1
               /\ failure_count' >= failure_threshold => state' = "open"
      ]_vars

\* the scheme a base URL names
SchemeOf(url) ==
    LET i == SchemeEnd(url) IN
    IF i = 0 THEN <<>> ELSE AsciiLower(SubSeq(url, 1, i - 1))

\* the configuration is invalid: no key, no model, or a base URL whose scheme
\* is neither http nor https
InvalidConfig ==
    \/ IsBlank(api_key)
    \/ IsBlank(model)
    \/ SchemeOf(api_base) \notin {AiText.http, AiText.https}

\* C20: with an invalid configuration a _make_request ends at once without a
\* result, without a provider call and without any call of the circuit
\* breaker, whose fields all stay as they were.
C20_ConfigFailsFast ==
    [][\A c \in Callers :
         (Enters(c) /\ InvalidConfig) =>
            /\ aPc'[c] = "done"
            /\ aResult'[c].kind # "content"
            /\ aCalls'[c] = 0
            /\ aLog'[c] = <<>>
            /\ <<state, failure_count, success_count, last_failure_time>>'
                  = <<state, failure_count, success_count, last_failure_time>>
      ]_vars

\* a request made with a base URL of another scheme that has ended at once
C20_Witness ==
    \E c \in Callers :
        /\ aLast.by = c /\ aLast.op = "make_request" /\ aLast.arg = "list"
        /\ ~IsBlank(api_key) /\ ~IsBlank(model)
        /\ SchemeOf(api_base) \notin {<<>>, AiText.http, AiText.https}
        /\ aPc[c] = "done" /\ aCalls[c] = 0 /\ aLog[c] = <<>>
        /\ aResult[c].kind # "content"

\* the type of the envelope in frame n
TypeOf(n) == Get(wire.dec[wire.frames[n]].msg.val, Text.type, JNull)

\* C21: while a connection has no session in the registry and its handler has
\* no user_id, an envelope from it that is no register changes nothing: it
\* is written to no connection (no routed chat_message, no typing_status
\* broadcast, no pong) and no ai_analysis_request is counted and dispatched.
C21_IgnoredBeforeRegister ==
    [][(/\ recvd' # recvd
        /\ ~Session(last'.c)
        /\ user_id[last'.c] = JNull
        /\ TypeOf(last'.f) # JStr(Text.register)) =>
          /\ outbox' = outbox
          /\ ai_req_count' = ai_req_count
          /\ clients' = clients]_vars

\* the frame the server writes for message m
Sent(m) == pack_message(m).bytes

\* the user ids an online_users list names
Listed(users) == {Get(users[i], Text.user_id, JNull) : i \in 1..Len(users)}

\* how many sessions other than user u's have connection d as their socket
SessionsBut(d, u) ==
    Cardinality({i \in 1..Len(clients) : clients[i][2].socket = d /\ clients[i][1] # u})

\* C22: handling register, the server first puts the session into the
\* registry, writing nothing; then writes user_joined once for every session
\* of another user, to that session's connection, and nothing to the
\* registering connection; then makes the list
\* of all registered users but the new one, and writes it as one
\* online_users envelope to the registering connection alone.
C22_RegisterOrder ==
    [][\A c \in Conns :
         /\ (pc[c] = "recv" /\ pc'[c] = "reg_bcast") =>
               /\ \E i \in EntriesOf(clients', reg'[c].uid) : clients'[i][2].socket = c
               /\ outbox' = outbox
         /\ (pc[c] = "reg_bcast" /\ pc'[c] = "reg_users") =>
               /\ outbox'[c] = outbox[c]
               /\ \A d \in Conns \ {c} :
                     outbox'[d] = outbox[d] \o
                        [k \in 1..(IF conn[d] = "open" THEN SessionsBut(d, reg[c].uid) ELSE 0)
                           |-> Sent(UserJoinedMsg(reg[c]))]
         /\ (pc[c] = "reg_users" /\ pc'[c] = "reg_send") =>
               /\ Listed(reg'[c].users)
                     = {clients[i][1] : i \in 1..Len(clients)} \ {reg[c].uid}
               /\ outbox' = outbox
         /\ (pc[c] = "reg_send" /\ pc'[c] = "recv") =>
               /\ outbox'[c] = Append(outbox[c], Sent(OnlineUsersMsg(reg[c].users)))
               /\ \A d \in Conns \ {c} : outbox'[d] = outbox[d]
      ]_vars

\* the frames of C23: chat_message whose target is a user id, not "public"
IsDirectChat(n) ==
    /\ TypeOf(n) = JStr(Text.chat_message)
    /\ Get(wire.dec[wire.frames[n]].msg.val, Text.target, JStr(Text.public)).t = "str"
    /\ Get(wire.dec[wire.frames[n]].msg.val, Text.target, JStr(Text.public))
          # JStr(Text.public)

\* the target of the chat_message in frame n
TargetOf(n) == Get(wire.dec[wire.frames[n]].msg.val, Text.target, JStr(Text.public))

C23_WitnessOffline ==
    /\ last = [c |-> "A", f |-> "ChatToB"]
    /\ user_id["A"] = JStr(Word.a)
    /\ EntriesOf(clients, JStr(Word.b)) = {}
    /\ outbox["B"] = <<>>

\* C29: every registry entry refers to a connection whose handler is still
\* running, and no connection is referred to by two entries.
C29_OneSessionPerLiveConn ==
    \A i \in 1..Len(clients) :
        /\ pc[clients[i][2].socket] # "done"
        /\ \A j \in 1..Len(clients) :
              clients[i][2].socket = clients[j][2].socket => i = j

\* the entries of registry d whose socket is connection c
EntriesAt(d, c) == {i \in 1..Len(d) : d[i][2].socket = c}

\* C28: the end of a connection's handler removes no registry entry whose
\* socket is another connection, and goes on to broadcast user_left only
\* when the entry under its user_id, if any, was its own.
C28_RemovesOwnEntryOnly ==
    [][\A c \in Conns :
         (pc[c] = "recv" /\ pc'[c] \in {"disc_bcast", "done"}) =>
            /\ \A d \in Conns \ {c} : \A i \in EntriesAt(clients, d) :
                  \E j \in EntriesAt(clients', d) : clients'[j] = clients[i]
            /\ pc'[c] = "disc_bcast" =>
                  \A i \in EntriesOf(clients, user_id[c]) : clients[i][2].socket = c
      ]_vars

\* C24: when the read loop of a connection that holds a session ends, the
\* session is removed from the registry, then user_left{user_id} is written
\* once to every session still registered and the socket is closed; a handler
\* that ends without that cleanup writes nothing.
C24_DisconnectCleanup ==
    [][\A c \in Conns :
         /\ (pc[c] = "recv" /\ pc'[c] \in {"disc_bcast", "done"} /\ Session(c)) =>
               /\ pc'[c] = "disc_bcast"
               /\ EntriesAt(clients', c) = {}
         /\ (pc[c] = "disc_bcast" /\ pc'[c] = "done") =>
               /\ conn'[c] = "closed"
               /\ \A d \in Conns :
                     outbox'[d] = outbox[d] \o
                        [k \in 1..(IF conn[d] = "open"
                                   THEN Cardinality(EntriesAt(clients, d)) ELSE 0)
                            |-> Sent(UserLeftMsg(user_id[c]))]
         /\ (pc[c] = "recv" /\ pc'[c] = "done") =>
               /\ conn'[c] = "closed"
               /\ outbox' = outbox
      ]_vars

\* C27: no thread is inside a socket write while it holds the registry lock.
C27_NoWriteUnderLock ==
    \A t \in LockThreads : kWrite[t] # "" => clients_lock # t

\* C30: every AI result written to a connection was requested by that
\* connection, and no result is written twice.
C30_ResultToRequester ==
    \A c \in Conns : \A i \in 1..Len(kOut[c]) :
        /\ kOut[c][i].from = c
        /\ \A d \in Conns : \A j \in 1..Len(kOut[d]) :
              kOut[d][j] = kOut[c][i] => (d = c /\ j = i)

\* a response of the C26 cases: a timeout or connection error, and one that
\* carries content that is a string and not blank
IsNetworkError(resp) == resp.post # "ok"
ContentIn(resp) ==
    IF resp.post = "ok" /\ resp.status_ok /\ resp.json_ok /\ resp.data.t = "obj"
       /\ Get(resp.data, ApiText.choices, JNull).t = "arr"
       /\ Get(resp.data, ApiText.choices, JNull).v # <<>>
       /\ first_content(Get(resp.data, ApiText.choices, JNull)).t = "str"
    THEN py_strip(first_content(Get(resp.data, ApiText.choices, JNull)).v)
    ELSE <<>>

\* C26: generate_content never raises.  When it has ended: if every attempt
\* met a timeout or connection error there were exactly 3 attempts and it
\* returned None; an attempt that met an HTTP error status or content that is
\* empty or unparseable was the last one and it returned None; an attempt
\* that got non-empty content was the last one and that content was returned.
C26_ProviderNeverRaises ==
    oPc = "done" =>
       /\ oResult.kind = "returned"
       /\ LET n == Len(calls) IN
          /\ (n > 0 /\ \A i \in 1..n : IsNetworkError(calls[i].resp)) =>
                n = 3 /\ oResult.none
          /\ \A i \in 1..n : ~IsNetworkError(calls[i].resp) =>
                /\ i = n
                /\ IF ContentIn(calls[i].resp) = <<>>
                   THEN oResult.none
                   ELSE ~oResult.none /\ oResult.val = ContentIn(calls[i].resp)

\* C25: once the application has called stop(), no reconnect loop makes a
\* connect attempt and the manager is never connected again.
C25_StopIsFinal ==
    [][user_stopped =>
          /\ ~running'
          /\ \A l \in NetLoops : ~(lPc[l] = "connect" /\ lPc'[l] # "connect")]_vars

\* C31: the breaker leaves "open" only for "half_open", and only by an
\* allow_request() made once recovery_timeout has passed since the last
\* failure; no step takes it from "open" to "closed".
C31_OpenOnlyToHalfOpen ==
    [][state = "open" =>
          \/ state' = "open"
          \/ /\ state' = "half_open"
             /\ now - last_failure_time >= recovery_timeout
             /\ \E c \in Callers : Enters(c)]_vars

\* how often a request has recorded an outcome on the breaker
RecordedOutcomes(log) ==
    Cardinality({i \in 1..Len(log) : log[i] \in {"record_success", "record_failure"}})

\* C32: a _make_request that allow_request() admitted has recorded exactly
\* one outcome on the breaker when it returns, whatever its messages
\* argument is.
C32_AdmittedRecordsOnce ==
    [][\A c \in Callers :
         /\ (Enters(c) /\ validate_config = "valid" /\ allow_request(Breaker, now).result
             /\ aPc'[c] = "done") => RecordedOutcomes(aLog'[c]) = 1
         /\ (Attempts(c) /\ aPc'[c] = "done") => RecordedOutcomes(aLog'[c]) = 1
      ]_vars

\* C33: every call of analyze_emotion returns a dict whose keys are among the
\* four labels and whose weights v / total all lie between 0 and 1.
C33_EmotionDistribution ==
    ePc = "done" =>
       /\ eResult.kind = "returned"
       /\ DOMAIN eResult.val \subseteq EmotionLabels
       /\ \A k \in DOMAIN eResult.val :
             /\ eResult.val[k][2] > 0
             /\ eResult.val[k][1] >= 0
             /\ eResult.val[k][1] <= eResult.val[k][2]

\* C35: once the relay has cleaned up a connection (its socket is closed by
\* _cleanup_connection), no room slot refers to it, and no room without an
\* occupant is left in the room table, also when the connection registered
\* more than once with another role or room_id
C35_CleanupLeavesNothing ==
    /\ \A c \in DOMAIN rSock : rSock[c] = "closed" => SlotsOf(rooms, c) = {}
    /\ \A r \in DOMAIN rooms : DOMAIN rooms[r] # {}

\* the step cleans up connection d: its handler runs its finally block, or the
\* monitor takes d's pair from its list
CleansUp(d) ==
    \/ hPc[d] = "recv" /\ hPc'[d] = "done"
    \/ \E x \in mStale \ mStale' : x.c = d

\* C36: a step of the relay that takes away a connection's client record or
\* one of the room slots it holds is a clean-up of that very connection, by
\* its handler's finally block or by the monitor; cleaning up one connection,
\* also with the monitor's stale pair after somebody else has registered for
\* the slot, leaves the records and slots of every other connection in place
C36_CleanupTouchesOwnOnly ==
    [][\A d \in MonitorConns :
          (\/ d \in DOMAIN rclients /\ d \notin DOMAIN rclients'
           \/ ~(SlotsOf(rooms, d) \subseteq SlotsOf(rooms', d)))
          => CleansUp(d)]_vars

\* the monitor has closed A under its running handler and B has since
\* registered for the slot that A's handler will name in its finally block
C36_Witness ==
    /\ hPc["A"] = "recv" /\ rSock["A"] = "closed"
    /\ hRoom["A"] # <<>> /\ hRole["A"] # <<>>
    /\ RegisteredAs("B", hRoom["A"], hRole["A"])

\* connection c is registered and its record's last_seen is older than the
\* heartbeat timeout
Stale(c) == c \in DOMAIN rclients /\ rNow - rclients[c].last_seen > heartbeat_timeout

\* C34: the monitor eventually force-closes every registered connection that
\* has been silent for longer than heartbeat_timeout, and once it is closed
\* no room slot is held by it any more, so that another connection can
\* register for the slot; a connection that lets itself be heard again in
\* time is not owed the close
C34_SilentIsClosedAndFreed ==
    \A c \in MonitorConns :
        Stale(c) ~> \/ c \in DOMAIN rclients /\ ~Stale(c)
                    \/ rSock[c] = "closed" /\ SlotsOf(rooms, c) = {}

\* C37: on the wire of every connection the frames the relay's threads write
\* (relay_ack and relay_error by the connection's own handler, forwarded
\* frames by the peer's handler) do not interleave: the length of a relay
\* frame is followed by that frame's payload and by nothing else
C37_FramesDoNotInterleave ==
    \A c \in DOMAIN rOut :
        \A i \in 1..Len(rOut[c]) :
            (rOut[c][i].kind = "length" /\ i < Len(rOut[c]))
            => /\ rOut[c][i + 1].src = "relay"
               /\ rOut[c][i + 1].kind \in {"relay_ack", "relay_error"}
               /\ rOut[c][i + 1].info = rOut[c][i].info

\* the reconnect loop threads that have been started and have neither ended
\* nor made their connection
RunningLoops == {l \in NetLoops : lPc[l] \in {"new", "test", "sleep", "connect"}}

\* C38: the manager's transitions are serialised: of the receive and the
\* heartbeat thread of one connection at most one is past the test of
\* _handle_disconnection at any time, so one loss is handled once, and at most
\* one reconnect loop is running
C38_OneDisconnectionOneLoop ==
    /\ \A g \in NetConns :
          Cardinality({t \in IoThreads : ioPc[g][t] \in {"stop", "spawn"}}) <= 1
    /\ user_stopped \/ Cardinality(RunningLoops) <= 1

\* C39: on every connection the manager makes, the first frame written is the
\* registration envelope: no heartbeat and no message of the application
\* comes before it
C39_RegistrationFirst ==
    \A g \in DOMAIN bWire : bWire[g] # <<>> => bWire[g][1] = "relay_register"

\* the heartbeat thread of connection g makes its timeout check in this step
ChecksTimeout(g) == bHb[g] = "check" /\ bHb'[g] # "check"

\* C40 as stated: when the heartbeat loop makes its check while the manager
\* is connected and no heartbeat has been heard for longer than the timeout,
\* the check closes the socket and the manager leaves the connected state
C40_NoHeartbeatCloses ==
    [][\A g \in BeatConns :
          (ChecksTimeout(g) /\ bRunning /\ bNow - bHeard > client_heartbeat_timeout)
          => ~bRunning' /\ bSock'[bCur] = "closed"]_vars

\* C40: when the heartbeat loop makes its check while the manager is
\* connected and last_heartbeat (set when the threads start and by every
\* heartbeat and every chat message received) is older than the timeout, the
\* check closes the socket and the manager leaves the connected state; when
\* last_heartbeat is not older than the timeout, the check closes nothing and
\* the loop goes to sleep
C40_OverdueCloses ==
    [][\A g \in BeatConns :
          ChecksTimeout(g) =>
             IF bNow - bLast > client_heartbeat_timeout
             THEN /\ bRunning => ~bRunning' /\ bSock'[bCur] = "closed"
                  /\ bHb'[g] = "ended"
             ELSE /\ bRunning' = bRunning /\ bSock' = bSock
                  /\ bHb'[g] = "sleep"
      ]_vars

\* the heartbeat loop has given up connection g at its check: last_heartbeat
\* was overdue, the socket is closed and the manager is no longer running,
\* while the receive thread of g is still in its loop
C40_Witness ==
    \E g \in BeatConns :
        /\ bHb[g] = "ended" /\ bSock[g] = "closed" /\ ~bRunning
        /\ bRx[g] = "loop"
        /\ bNow - bLast > client_heartbeat_timeout

====
